---- MODULE Spec2Model ----
(***************************************************************************)
(* State-machine model of the concurrent execution runtime of              *)
(* go-behaviortree: the stateful Tick wrappers Async, Fork, Background,    *)
(* Memorize and Sync.  Each wrapper is a closure over private state; the   *)
(* closure variables are the VARIABLES below, one group per wrapper, and   *)
(* each wrapper has its own specification (SpecAsync, SpecFork, ...).      *)
(***************************************************************************)
EXTENDS Integers, Sequences, FiniteSets, TLC

(***************************************************************************)
(* Status: behaviortree.go const block.  0 is the zero value of the int    *)
(* type, which is none of the three valid statuses.                        *)
(***************************************************************************)
Invalid == 0
Running == 1
Success == 2
Failure == 3
Statuses == {Invalid, Running, Success, Failure}

\* An error is modelled by the list of atomic messages its text is made of:
\* NoErr is the nil error, <<"e1">> is errors.New("e1") and
\* <<"e1", "e2">> is the error whose text is "e1 | e2".
NoErr == <<>>
Errs == {NoErr, <<"e1">>, <<"e2">>}

\* The (Status, error) pairs a tick of user logic may return.
Results == [s : Statuses, e : Errs]
Res(s, e) == [s |-> s, e |-> e]
RunningNil == Res(Running, NoErr)

\* err == nil && status == Running
StillRunning(r) == r.e = NoErr /\ r.s = Running

\* Bounds of the model.
MaxCalls == 4

\* The children slices a caller may pass to a tick.
ChildArgs == {"cA", "cB"}

VARIABLES
    \* ---- Async (closure state of one Async instance) ----
    a_done,     \* "nil" or "chan": the done channel variable
    a_buf,      \* contents of the done channel (capacity 1)
    a_gor,      \* goroutines spawned by the instance that have not exited
    a_ret,      \* what the last call of the Async tick returned
    a_ncall,    \* number of calls of the Async tick made so far
    a_nspawn,   \* number of goroutines spawned so far
    a_prod,     \* what the wrapped tick of the current spawn returned
    a_ncollect  \* how many calls returned the result of the current spawn

asyncVars == <<a_done, a_buf, a_gor, a_ret, a_ncall, a_nspawn, a_prod, a_ncollect>>

VARIABLES
    \* ---- Fork (closure state of one Fork instance, and one call of it) ----
    f_remaining,  \* remaining []Node
    f_status,     \* aggregate status
    f_err,        \* aggregate err
    f_pc,         \* "idle": no call in progress; "drain": a call is draining outputs
    f_count,      \* count of the call in progress
    f_x,          \* number of outputs the call in progress has applied
    f_outputs,    \* contents of the outputs channel, oldest first
    f_gor,        \* child goroutines of the call in progress that have not exited
    f_ret,        \* what the last finished call returned
    f_ncall,      \* number of calls started so far
    \* observations of the run, not state of the program
    o_active,     \* TRUE while a cycle is under way between calls
    o_kids,       \* the children passed to the first call of the current cycle
    o_expect,     \* the children the current call has to tick
    o_ticks,      \* how often each child was ticked by the current call
    o_final,      \* the last result of each child in the current cycle
    o_arrival,    \* the errors of the current cycle in the order they were sent
    o_rounds      \* number of calls of the current cycle

forkVars == <<f_remaining, f_status, f_err, f_pc, f_count, f_x, f_outputs, f_gor,
              f_ret, f_ncall, o_active, o_kids, o_expect, o_ticks, o_final,
              o_arrival, o_rounds>>

VARIABLES
    \* ---- Background (closure state of one Background instance) ----
    b_nodes,    \* nodes []Node: the backgrounded tasks, oldest first
    b_ret,      \* what the last call returned
    b_ncall,    \* number of calls made so far
    b_ngen,     \* number of times the generator was invoked so far
    \* observations of the run, not state of the program
    b_log,      \* the ids of the tasks ticked by the last call, in tick order
    b_gen,      \* number of generator invocations of the last call
    b_reg,      \* the tasks generated so far, by id
    b_term,     \* the terminal results returned so far: task id and result
    b_args      \* the children passed to the last call

bgVars == <<b_nodes, b_ret, b_ncall, b_ngen, b_log, b_gen, b_reg, b_term, b_args>>

VARIABLES
    \* ---- Memorize (closure state of one Memorize instance, one call of it) ----
    m_started,  \* started
    m_nodes,    \* nodes []Node: the wrapped children, each with its override
    m_pc,       \* "idle": no call in progress; "tick": the wrapped tick is running
    m_ret,      \* what the last finished call returned
    m_ncall,    \* number of calls started so far
    m_nticks,   \* number of child ticks made by the call in progress
    \* observations of the run, not state of the program
    m_args,     \* the children passed to the last call
    m_snap,     \* the children passed to the call that started the execution
    m_memo,     \* per child index, the terminal result of its real tick in this execution
    m_last,     \* the last child tick: index, child, whether the real tick ran, result
    m_fresh,    \* TRUE if the next call starts an execution
    m_prevEnd   \* the result of the wrapped tick that ended the previous execution

memVars == <<m_started, m_nodes, m_pc, m_ret, m_ncall, m_nticks, m_args, m_snap, m_memo,
             m_last, m_fresh, m_prevEnd>>

VARIABLES
    \* ---- Sync (the syc struct shared by the wrapped siblings, and its callers) ----
    s_statuses, \* statuses []Status, one per sibling
    s_mutex,    \* mutex: 0 if free, else the goroutine holding it
    s_thr,      \* per goroutine: where it is in Node.Tick() of a wrapped sibling
    s_active,   \* the goroutines that tick siblings
    s_ncall,    \* number of sibling ticks (Node.Tick()) started so far
    \* observations of the run, not state of the program
    s_last      \* the last finished sibling tick

syncVars == <<s_statuses, s_mutex, s_thr, s_active, s_ncall, s_last>>

VARIABLES
    \* ---- Ticker (one tickerCore, its run goroutine, timer and context) ----
    t_pc,       \* where the run goroutine is
    t_lerr,     \* var err of run
    t_err,      \* t.err
    t_ctx,      \* t.ctx.Err(): NoErr while t.ctx is not done
    t_parent,   \* Err() of the context passed to NewTicker
    t_stop,     \* TRUE once t.stop is closed
    t_once,     \* TRUE once t.once has run
    t_timer,    \* TRUE while t.ticker (the time.Ticker) has not been stopped
    t_C,        \* number of ticks buffered in t.ticker.C (capacity 1)
    t_done,     \* TRUE once t.done is closed
    \* observations of the run, not state of the program
    t_nticks,     \* number of timer ticks taken, each followed by one node.Tick()
                  \* (counted up to MaxTicks)
    t_stopCalled, \* TRUE once Stop() was called from outside
    t_tickErr,    \* the first error a tick returned
    t_late,       \* TRUE if a tick was started after a tick had returned an error
    t_kind,       \* "core" (NewTicker), "stopOnFailure" (NewTickerStopOnFailure) or
                  \* "nodeTicker" (NewTicker of the revision with a deferred recover)
    t_fail,       \* TRUE once a tick of the node returned (Failure, nil)
    t_lateF,      \* TRUE if a tick was started after a tick had returned (Failure, nil)
    t_nclose,     \* number of times close(t.stop) was executed
    t_nstops,     \* number of Stop() calls from outside (counted up to MaxTickerStops)
    t_panicked,   \* TRUE once node.Tick() has panicked in the run goroutine
    t_postTake,   \* number of timer ticks taken from t.ticker.C after a Stop() returned
    t_postStop    \* number of node.Tick() calls made after a Stop() returned

tickerVars == <<t_pc, t_lerr, t_err, t_ctx, t_parent, t_stop, t_once, t_timer, t_C,
                t_done, t_nticks, t_stopCalled, t_tickErr, t_late, t_kind, t_fail,
                t_lateF, t_nclose, t_nstops, t_panicked, t_postTake, t_postStop>>

VARIABLES
    \* ---- Manager (one manager, its worker, the callers of Add and Stop,
    \* ---- the handle goroutines and the tickers handed to Add) ----
    mgr_stop,   \* TRUE once m.stop is closed
    mgr_done,   \* TRUE once m.done is closed
    mgr_once,   \* m.once: "idle", "running" or "done"
    mgr_errs,   \* m.errs
    wk_count,   \* m.worker: number of Do calls not yet released
    wk_stop,    \* m.worker: TRUE once the stop channel given to run is closed
    wk_wait,    \* m.worker: who holds its mutex waiting for run to return
    run_pc,     \* the goroutine of manager.run: "none" or "select"
    pc,         \* position of every caller of Add, of Stop and of every handle
    add_err,    \* what Add returned, per ticker
    tk_done,    \* per ticker: TRUE once its Done() is closed
    tk_err,     \* per ticker: its Err()
    tk_stops,   \* per ticker: number of Stop() calls made on it
    \* observations of the run, not state of the program
    mo_stopCalls,    \* number of Stop() calls made by users of the manager
    mo_stopReturned, \* TRUE once one of them has returned
    mo_late,         \* per ticker: its Add started after a Stop() had returned
    mo_rec,          \* tickers in the order their errors were recorded
    mo_trig,         \* per ticker: its handle goroutine called m.Stop()
    mo_raced,        \* per ticker: its Add returned nil with m.stop closed
    mo_seen,         \* per ticker: what had been recorded when its Add failed
    mo_after,        \* per ticker: its Add started after a handle had ended
    mo_doneCloses,   \* number of times close(m.done) was executed
    mo_stopCloses    \* number of times close(m.stop) was executed

managerVars == <<mgr_stop, mgr_done, mgr_once, mgr_errs, wk_count, wk_stop, wk_wait,
                 run_pc, pc, add_err, tk_done, tk_err, tk_stops, mo_stopCalls,
                 mo_stopReturned, mo_late, mo_rec, mo_trig, mo_raced, mo_seen,
                 mo_after, mo_doneCloses, mo_stopCloses>>

VARIABLES
    \* ---- A tree: NewNode(Sequence, Sync([A, Async(B), C])), ticked by one caller ----
    q_statuses, \* statuses of the syc shared by the three wrapped siblings
    q_done,     \* "nil" or "chan": the done channel variable of the Async instance
    q_buf,      \* contents of that done channel
    q_gor,      \* the goroutine spawned by Async: "none", "tick" or "send"
    q_pc,       \* 0: no tick of the tree in progress; i: Sequence is about to tick child i
    q_ret,      \* what the last tick of the tree returned
    q_ncall,    \* number of ticks of the tree started so far
    \* observations of the run, not state of the program
    q_log,      \* the real logic run since the last tick that returned Success
    q_ready,    \* TRUE if B's goroutine had delivered its result when the tick began
    q_passes    \* number of ticks that returned Success

treeVars == <<q_statuses, q_done, q_buf, q_gor, q_pc, q_ret, q_ncall, q_log, q_ready,
              q_passes>>

vars == <<asyncVars, forkVars, bgVars, memVars, syncVars, tickerVars, managerVars,
          treeVars>>

----------------------------------------------------------------------------
(***************************************************************************)
(* Async                                                                   *)
(***************************************************************************)
NoRes == [s |-> -1, e |-> NoErr]

AsyncIdle ==
    /\ a_done = "nil"
    /\ a_buf = <<>>
    /\ a_gor = {}
    /\ a_ret = NoRes
    /\ a_ncall = 0
    /\ a_nspawn = 0
    /\ a_prod = NoRes
    /\ a_ncollect = 0

\* The goroutine started by a spawning call: it holds the children of that
\* call, and has not yet run the wrapped tick to its end.
NewGoroutine(id, children) ==
    [id |-> id, children |-> children, pc |-> "tick", status |-> NoRes]

\* if done == nil { done = make(chan, 1); go func(){...}(); return Running, nil }
AsyncSpawn(children) ==
    /\ a_done = "nil"
    /\ a_done' = "chan"
    /\ a_buf' = <<>>
    /\ a_gor' = a_gor \cup {NewGoroutine(a_nspawn + 1, children)}
    /\ a_nspawn' = a_nspawn + 1
    /\ a_ret' = RunningNil
    /\ a_prod' = NoRes
    /\ a_ncollect' = 0

\* AsyncCollect returning the status without the error.
AsyncCollectDropsError ==
    /\ a_done = "chan"
    /\ a_buf # <<>>
    /\ a_done' = "nil"
    /\ a_buf' = Tail(a_buf)
    /\ a_ret' = Res(Head(a_buf).s, NoErr)
    /\ a_ncollect' = a_ncollect + 1
    /\ UNCHANGED <<a_gor, a_nspawn, a_prod>>

\* select { case status := <-done: done = nil; return status.Status, status.Error }
AsyncCollect ==
    /\ a_done = "chan"
    /\ a_buf # <<>>
    /\ a_done' = "nil"
    /\ a_buf' = Tail(a_buf)
    /\ a_ret' = Head(a_buf)
    /\ a_ncollect' = a_ncollect + 1
    /\ UNCHANGED <<a_gor, a_nspawn, a_prod>>

\* AsyncPoll clearing the running marker although no result has arrived.
AsyncPollClearsDone ==
    /\ a_done = "chan"
    /\ a_buf = <<>>
    /\ a_done' = "nil"
    /\ a_ret' = RunningNil
    /\ UNCHANGED <<a_buf, a_gor, a_nspawn, a_prod, a_ncollect>>

\* select { default: return Running, nil }
AsyncPoll ==
    /\ a_done = "chan"
    /\ a_buf = <<>>
    /\ a_ret' = RunningNil
    /\ UNCHANGED <<a_done, a_buf, a_gor, a_nspawn, a_prod, a_ncollect>>

\* One call of the tick returned by Async(tick).
AsyncCall(children) ==
    /\ a_ncall < MaxCalls
    /\ a_ncall' = a_ncall + 1
    /\ \/ AsyncSpawn(children)
       \/ AsyncCollect
       \/ AsyncPoll

\* status.Status, status.Error = tick(children) in the goroutine
AsyncGoTick(g, r) ==
    /\ g \in a_gor
    /\ g.pc = "tick"
    /\ a_gor' = (a_gor \ {g}) \cup {[g EXCEPT !.pc = "send", !.status = r]}
    /\ a_prod' = r
    /\ UNCHANGED <<a_done, a_buf, a_ret, a_ncall, a_nspawn, a_ncollect>>

\* The done channel made without a buffer: it holds no value.
DoneCapUnbuffered == Len(<<>>)
\* done = make(chan struct{...}, 1): the capacity of the done channel
DoneCap == 1

\* defer func() { done <- status }(): the send blocks while the buffer is full
AsyncGoSend(g) ==
    /\ g \in a_gor
    /\ g.pc = "send"
    /\ Len(a_buf) < DoneCap
    /\ a_buf' = Append(a_buf, g.status)
    /\ a_gor' = a_gor \ {g}
    /\ UNCHANGED <<a_done, a_ret, a_ncall, a_nspawn, a_prod, a_ncollect>>

----------------------------------------------------------------------------
(***************************************************************************)
(* Fork                                                                    *)
(***************************************************************************)
\* The child nodes a Fork may be given, and the children slices passed to it.
ForkKids == {1, 2, 3}
ForkArgs == {<<>>, <<1, 2>>, <<2, 1, 3>>}
MaxForkCalls == 3

\* The error child c returns when it returns one.
ErrName == <<"e1", "e2", "e3">>
ErrOf(c) == <<ErrName[c]>>
\* What node.Tick() of child c may return.
ForkResults(c) == [s : Statuses, e : {NoErr, ErrOf(c)}]

\* fmt.Errorf("%s | %s", err.Error(), re.Error())
JoinErr(err, re) == err \o re

Range(q) == {q[k] : k \in 1..Len(q)}

ForkIdle ==
    /\ f_remaining = <<>>
    /\ f_status = 0
    /\ f_err = NoErr
    /\ f_pc = "idle"
    /\ f_count = 0
    /\ f_x = 0
    /\ f_outputs = <<>>
    /\ f_gor = {}
    /\ f_ret = NoRes
    /\ f_ncall = 0
    /\ o_active = FALSE
    /\ o_kids = <<>>
    /\ o_expect = {}
    /\ o_ticks = [c \in ForkKids |-> 0]
    /\ o_final = [c \in ForkKids |-> NoRes]
    /\ o_arrival = <<>>
    /\ o_rounds = 0

\* if status == 0 && err == nil { status = Success; remaining = copy of children }
ForkCycleStart == f_status = 0 /\ f_err = NoErr

\* The start of a call: cycle start if due, count, the go statements of the
\* range loop (one goroutine per entry of remaining) and remaining[:0].
ForkCallBegin(children) ==
    /\ f_pc = "idle"
    /\ f_ncall < MaxForkCalls
    /\ f_ncall' = f_ncall + 1
    /\ LET rem == IF ForkCycleStart THEN children ELSE f_remaining IN
        /\ f_status' = IF ForkCycleStart THEN Success ELSE f_status
        /\ f_count' = Len(rem)
        /\ f_gor' = {[pos |-> k, node |-> rem[k], pc |-> "tick", res |-> NoRes] :
                        k \in 1..Len(rem)}
    /\ f_remaining' = <<>>
    /\ f_outputs' = <<>>
    /\ f_x' = 0
    /\ f_pc' = "drain"
    /\ UNCHANGED <<f_err, f_ret>>
    \* observations
    /\ o_kids' = IF o_active THEN o_kids ELSE children
    /\ o_expect' = IF o_active
                     THEN {c \in Range(o_kids) : StillRunning(o_final[c])}
                     ELSE Range(children)
    /\ o_final' = IF o_active THEN o_final ELSE [c \in ForkKids |-> NoRes]
    /\ o_arrival' = IF o_active THEN o_arrival ELSE <<>>
    /\ o_rounds' = IF o_active THEN o_rounds + 1 ELSE 1
    /\ o_ticks' = [c \in ForkKids |-> 0]
    /\ o_active' = TRUE

\* rs, re := node.Tick() in a child goroutine
ForkGoTick(g, r) ==
    /\ g \in f_gor
    /\ g.pc = "tick"
    /\ f_gor' = (f_gor \ {g}) \cup {[g EXCEPT !.pc = "send", !.res = r]}
    /\ o_ticks' = [o_ticks EXCEPT ![g.node] = @ + 1]
    /\ o_final' = [o_final EXCEPT ![g.node] = r]
    /\ UNCHANGED <<f_remaining, f_status, f_err, f_pc, f_count, f_x, f_outputs,
                   f_ret, f_ncall, o_active, o_kids, o_expect, o_arrival, o_rounds>>

\* The closure sent on outputs, applied to the shared state:
\*   if re != nil { rs = Failure; err = (err joined with re, or re) }
\*   switch rs { case Running: append; case Success: ; default: status = Failure }
\* MutErr putting the new error in front of the ones recorded before.
MutErrPrepends(m, err) == IF m.re # NoErr
                            THEN (IF err # NoErr THEN JoinErr(m.re, err) ELSE m.re)
                            ELSE err
MutErr(m, err) == IF m.re # NoErr
                    THEN (IF err # NoErr THEN JoinErr(err, m.re) ELSE m.re)
                    ELSE err
MutRs(m) == IF m.re # NoErr THEN Failure ELSE m.rs
\* MutRemaining looking at the status the child returned, error or not.
MutRemainingIgnoresError(m, remaining) ==
    IF m.rs = Running THEN Append(remaining, m.node) ELSE remaining
MutRemaining(m, remaining) ==
    IF MutRs(m) = Running THEN Append(remaining, m.node) ELSE remaining
\* MutStatus failing the cycle on the Failure status only.
MutStatusOnlyFailure(m, status) ==
    IF MutRs(m) = Failure THEN Failure ELSE status
MutStatus(m, status) ==
    IF MutRs(m) \in {Running, Success} THEN status ELSE Failure

\* ForkGoSend with the child goroutine updating the shared state itself
\* and sending a closure that does nothing.
ForkGoSendApplies(g) ==
    /\ g \in f_gor
    /\ g.pc = "send"
    /\ Len(f_outputs) + f_x < f_count
    /\ LET m == [node |-> g.node, rs |-> g.res.s, re |-> g.res.e] IN
        /\ f_err' = MutErr(m, f_err)
        /\ f_remaining' = MutRemaining(m, f_remaining)
        /\ f_status' = MutStatus(m, f_status)
    /\ f_outputs' = Append(f_outputs, [node |-> g.node, rs |-> Success, re |-> NoErr])
    /\ f_gor' = f_gor \ {g}
    /\ o_arrival' = o_arrival \o g.res.e
    /\ UNCHANGED <<f_pc, f_count, f_x, f_ret, f_ncall, o_active, o_kids, o_expect,
                   o_ticks, o_final, o_rounds>>
\* outputs <- func() {...}: the channel holds count entries, so this never blocks
ForkGoSend(g) ==
    /\ g \in f_gor
    /\ g.pc = "send"
    /\ Len(f_outputs) + f_x < f_count
    /\ f_outputs' = Append(f_outputs, [node |-> g.node, rs |-> g.res.s, re |-> g.res.e])
    /\ f_gor' = f_gor \ {g}
    /\ o_arrival' = o_arrival \o g.res.e
    /\ UNCHANGED <<f_remaining, f_status, f_err, f_pc, f_count, f_x, f_ret, f_ncall,
                   o_active, o_kids, o_expect, o_ticks, o_final, o_rounds>>

\* for x := 0; x < count; x++ { (<-outputs)() }: one iteration
ForkDrain ==
    /\ f_pc = "drain"
    /\ f_x < f_count
    /\ f_outputs # <<>>
    /\ LET m == Head(f_outputs) IN
        /\ f_err' = MutErr(m, f_err)
        /\ f_remaining' = MutRemaining(m, f_remaining)
        /\ f_status' = MutStatus(m, f_status)
    /\ f_outputs' = Tail(f_outputs)
    /\ f_x' = f_x + 1
    /\ UNCHANGED <<f_pc, f_count, f_gor, f_ret, f_ncall,
                   o_active, o_kids, o_expect, o_ticks, o_final, o_arrival, o_rounds>>

\* ForkCycleEnd leaving the aggregate error in place.
ForkCycleEndKeepsErr ==
    /\ f_remaining = <<>>
    /\ f_ret' = Res(f_status, f_err)
    /\ f_status' = 0
    /\ f_err' = f_err

\* if len(remaining) == 0 { rs, re := status, err; status, err = 0, nil; return rs, re }
ForkCycleEnd ==
    /\ f_remaining = <<>>
    /\ f_ret' = Res(f_status, f_err)
    /\ f_status' = 0
    /\ f_err' = NoErr

\* return Running, nil
ForkRoundEnd ==
    /\ f_remaining # <<>>
    /\ f_ret' = RunningNil
    /\ UNCHANGED <<f_status, f_err>>

\* ForkCallEnd not waiting for the outputs still to come.
ForkCallEndEarly ==
    /\ f_pc = "drain"
    /\ f_pc' = "idle"
    /\ \/ ForkCycleEnd
       \/ ForkRoundEnd
    /\ o_active' = (\E c \in o_expect : StillRunning(o_final[c]))
    /\ UNCHANGED <<f_remaining, f_count, f_x, f_outputs, f_gor, f_ncall,
                   o_kids, o_expect, o_ticks, o_final, o_arrival, o_rounds>>

\* The end of a call, once the drain loop has applied count outputs.
ForkCallEnd ==
    /\ f_pc = "drain"
    /\ f_x = f_count
    /\ f_pc' = "idle"
    /\ \/ ForkCycleEnd
       \/ ForkRoundEnd
    /\ o_active' = (\E c \in o_expect : StillRunning(o_final[c]))
    /\ UNCHANGED <<f_remaining, f_count, f_x, f_outputs, f_gor, f_ncall,
                   o_kids, o_expect, o_ticks, o_final, o_arrival, o_rounds>>

----------------------------------------------------------------------------
(***************************************************************************)
(* Background                                                              *)
(***************************************************************************)
MaxBgCalls == 4
\* A generated tick returns Running this many times before its terminal
\* result, or for ever.
Forever == -1
Lefts == {0, 1, 2, Forever}
\* The terminal results of generated ticks: anything but (Running, nil).
BgTerminal == {Res(Invalid, NoErr), Res(Running, <<"e1">>)}
\* What the generator may return: nil, or a stateful tick.
GenTicks == {[nil |-> TRUE, left |-> 0, res |-> Res(Success, NoErr)]} \cup
            [nil : {FALSE}, left : Lefts, res : BgTerminal]

\* errors.New("behaviortree.Node cannot tick a node with a nil tick")
NilTickErr == <<"nil tick">>

\* NewNode(tick(), children): the node of a generated task.
BgNode(id, t, children) ==
    [id |-> id, nil |-> t.nil, left |-> t.left, res |-> t.res, children |-> children]

\* Node.Tick(): the result of ticking a task node in its current state ...
NodeTick(n) ==
    IF n.nil THEN Res(Failure, NilTickErr)
    ELSE IF n.left = 0 THEN n.res
    ELSE RunningNil
\* ... and the state of the task after that tick.
Ticked(n) == IF n.left > 0 THEN [n EXCEPT !.left = @ - 1] ELSE n

\* err == nil && status == Running { continue }: the loop goes past task n
BgContinue(n) == StillRunning(NodeTick(n))

\* The index at which the range loop over nodes returns, 0 if it runs through.
LastDone(q) ==
    IF \E k \in 1..Len(q) : ~BgContinue(q[k])
      THEN CHOOSE k \in 1..Len(q) :
             ~BgContinue(q[k]) /\ \A j \in (k+1)..Len(q) : BgContinue(q[j])
      ELSE 0
\* FirstDone with the range loop ending at the first task still Running.
FirstDoneIfOldest(q) ==
    IF q # <<>> /\ ~BgContinue(q[1]) THEN 1 ELSE 0
FirstDone(q) ==
    IF \E k \in 1..Len(q) : ~BgContinue(q[k])
      THEN CHOOSE k \in 1..Len(q) :
             ~BgContinue(q[k]) /\ \A j \in 1..(k-1) : BgContinue(q[j])
      ELSE 0

\* RemoveAt dropping the newest entry instead of entry i.
RemoveNewest(q, i) == SubSeq(q, 1, Len(q) - 1)
\* copy(nodes[i:], nodes[i+1:]); nodes[len(nodes)-1] = nil; nodes = nodes[:len(nodes)-1]
RemoveAt(q, i) == SubSeq(q, 1, i - 1) \o SubSeq(q, i + 1, Len(q))

\* The tasks of q up to index k after having been ticked, the rest untouched.
TickUpTo(q, k) == [j \in 1..Len(q) |-> IF j <= k THEN Ticked(q[j]) ELSE q[j]]
Ids(q) == [j \in 1..Len(q) |-> q[j].id]

BgIdle ==
    /\ b_nodes = <<>>
    /\ b_ret = NoRes
    /\ b_ncall = 0
    /\ b_ngen = 0
    /\ b_log = <<>>
    /\ b_gen = 0
    /\ b_reg = <<>>
    /\ b_term = <<>>
    /\ b_args = "none"

\* The range loop found a task that is not Running: remove it, return its result.
BgReturnQueued ==
    LET k == FirstDone(b_nodes) IN
    /\ k # 0
    /\ b_ret' = NodeTick(b_nodes[k])
    /\ b_nodes' = RemoveAt(TickUpTo(b_nodes, k), k)
    /\ b_log' = SubSeq(Ids(b_nodes), 1, k)
    /\ b_gen' = 0
    /\ b_term' = Append(b_term, [id |-> b_nodes[k].id, res |-> NodeTick(b_nodes[k])])
    /\ UNCHANGED <<b_ngen, b_reg>>

\* BgDiscard looking at the status only.
BgDiscardStatusOnly(r) == r.s # Running
\* if err != nil || status != Running: the new task is not queued
BgDiscard(r) == r.e # NoErr \/ r.s # Running

\* The range loop ran through: node := NewNode(tick(), children); node.Tick()
BgGenerate(children, t) ==
    LET node == BgNode(b_ngen + 1, t, children)
        r == NodeTick(node)
        q == TickUpTo(b_nodes, Len(b_nodes))
    IN
    /\ FirstDone(b_nodes) = 0
    /\ b_ngen' = b_ngen + 1
    /\ b_gen' = 1
    /\ b_reg' = Append(b_reg, node)
    /\ b_log' = Append(Ids(b_nodes), node.id)
    /\ b_ret' = r
    /\ IF BgDiscard(r)
         THEN \* if err != nil || status != Running { return status, err }
              /\ b_nodes' = q
              /\ b_term' = Append(b_term, [id |-> node.id, res |-> r])
         ELSE \* nodes = append(nodes, node); return Running, nil
              /\ b_nodes' = Append(q, Ticked(node))
              /\ b_term' = b_term

\* One call of the tick returned by Background(tick); t is what the
\* generator returns if this call invokes it.
BackgroundCall(children, t) ==
    /\ b_ncall < MaxBgCalls
    /\ b_ncall' = b_ncall + 1
    /\ b_args' = children
    /\ \/ BgReturnQueued
       \/ BgGenerate(children, t)

----------------------------------------------------------------------------
(***************************************************************************)
(* Memorize                                                                *)
(***************************************************************************)
MaxMemCalls == 3
MaxChildTicks == 3
\* Child nodes: 1 and 2 have real ticks, NilTickKid is a node whose tick is
\* nil, NilKid is a nil Node.
NilKid == 0
NilTickKid == 3
MemArgs == {<<1, 2>>, <<2, NilTickKid, NilKid>>}
MaxMemKids == 3
\* What a real tick of a child, and the wrapped tick itself, may return.
MemResults ==
    {RunningNil, Res(Success, NoErr), Res(Running, <<"e1">>), Res(Failure, NoErr),
     Res(Success, <<"e2">>)}

\* errors.New("behaviortree.Node cannot tick a nil node")
NilNodeErr == <<"nil node">>

NoMemo == [i \in 1..MaxMemKids |-> NoRes]
NoTick == [idx |-> 0, child |-> 0, real |-> FALSE, ret |-> NoRes]

MemIdle ==
    /\ m_started = FALSE
    /\ m_nodes = <<>>
    /\ m_pc = "idle"
    /\ m_ret = NoRes
    /\ m_ncall = 0
    /\ m_nticks = 0
    /\ m_args = <<>>
    /\ m_snap = <<>>
    /\ m_memo = NoMemo
    /\ m_last = NoTick
    /\ m_fresh = TRUE
    /\ m_prevEnd = NoRes

\* nodes = copyNodes(children), every non-nil child replaced by its wrapper
\* (var override Tick, nil at first)
Wrap(children) ==
    [i \in 1..Len(children) |-> [child |-> children[i], override |-> NoRes]]

\* MemChildDone looking at the status only.
MemChildDoneStatusOnly(r) == r.s # Running
\* MemChildDone taking a result with an error as not done.
MemChildDoneNilErrOnly(r) == r.e = NoErr /\ r.s # Running
\* if err != nil || status != Running { override = ... } in the child wrapper
MemChildDone(r) == r.e # NoErr \/ r.s # Running

\* MemOuterDone looking at the status only.
MemOuterDoneStatusOnly(r) == r.s # Running
\* if err != nil || status != Running { started = false; nodes = nil }
MemOuterDone(r) == r.e # NoErr \/ r.s # Running

\* if !started { nodes = wrapped copy of children; started = true }; then the
\* wrapped tick is entered with nodes.
MemCallBegin(children) ==
    /\ m_pc = "idle"
    /\ m_ncall < MaxMemCalls
    /\ m_ncall' = m_ncall + 1
    /\ m_nodes' = IF ~m_started THEN Wrap(children) ELSE m_nodes
    /\ m_started' = TRUE
    /\ m_pc' = "tick"
    /\ m_nticks' = 0
    /\ m_args' = children
    /\ m_snap' = IF m_fresh THEN children ELSE m_snap
    /\ UNCHANGED <<m_ret, m_memo, m_last, m_fresh, m_prevEnd>>

\* The wrapped tick ticks nodes[i] with Node.Tick(); r is what the child's
\* real tick returns if it is invoked.
\*   nil node             -> Failure and an error
\*   override != nil      -> the override's result, the real tick is not called
\*   the child's tick nil -> Failure and an error
\*   else                 -> the real tick; a done result becomes the override
MemChildTick(i, r) ==
    /\ m_pc = "tick"
    /\ m_nticks < MaxChildTicks
    /\ i \in 1..Len(m_nodes)
    /\ m_nticks' = m_nticks + 1
    /\ LET w == m_nodes[i] IN
        \/ /\ w.child = NilKid
           /\ m_last' = [idx |-> i, child |-> w.child, real |-> FALSE,
                         ret |-> Res(Failure, NilNodeErr)]
           /\ UNCHANGED <<m_nodes, m_memo>>
        \/ /\ w.child # NilKid
           /\ w.override # NoRes
           /\ m_last' = [idx |-> i, child |-> w.child, real |-> FALSE, ret |-> w.override]
           /\ UNCHANGED <<m_nodes, m_memo>>
        \/ /\ w.child = NilTickKid
           /\ w.override = NoRes
           /\ m_last' = [idx |-> i, child |-> w.child, real |-> FALSE,
                         ret |-> Res(Failure, NilTickErr)]
           /\ UNCHANGED <<m_nodes, m_memo>>
        \/ /\ w.child \notin {NilKid, NilTickKid}
           /\ w.override = NoRes
           /\ m_last' = [idx |-> i, child |-> w.child, real |-> TRUE, ret |-> r]
           /\ m_nodes' = IF MemChildDone(r)
                           THEN [m_nodes EXCEPT ![i].override = r]
                           ELSE m_nodes
           /\ m_memo' = IF ~StillRunning(r) /\ m_memo[i] = NoRes
                          THEN [m_memo EXCEPT ![i] = r]
                          ELSE m_memo
    /\ UNCHANGED <<m_started, m_pc, m_ret, m_ncall, m_args, m_snap, m_fresh, m_prevEnd>>

\* status, err = tick(nodes) returns r; the execution ends if r is done.
MemCallEnd(r) ==
    /\ m_pc = "tick"
    /\ m_pc' = "idle"
    /\ m_ret' = r
    /\ m_started' = IF MemOuterDone(r) THEN FALSE ELSE m_started
    /\ m_nodes' = IF MemOuterDone(r) THEN <<>> ELSE m_nodes
    /\ m_fresh' = ~StillRunning(r)
    /\ m_memo' = IF ~StillRunning(r) THEN NoMemo ELSE m_memo
    /\ m_prevEnd' = IF ~StillRunning(r) THEN r ELSE m_prevEnd
    /\ UNCHANGED <<m_ncall, m_nticks, m_args, m_snap, m_last>>

----------------------------------------------------------------------------
(***************************************************************************)
(* Sync                                                                    *)
(***************************************************************************)
MaxSyncCalls == 4
\* The sibling set: siblings 1 and 2 have real ticks, sibling 3 is a node
\* whose tick is nil.
Siblings == {1, 2, 3}
SyncNilTick == {3}
\* The goroutines that may tick siblings.
Threads == {1, 2}
\* What the real tick of a sibling may return.
SyncResults == [s : Statuses, e : {NoErr, <<"e1">>}]

ThrIdle == [pc |-> "idle", i |-> 0, kind |-> "none", status |-> 0,
            exp |-> <<>>]
NoSyncTick == [i |-> 0, kind |-> "none", real |-> FALSE, ret |-> NoRes,
               r |-> NoRes, exp |-> <<>>, after |-> <<>>]

\* statuses: make([]Status, len(nodes)), all zero; nobody ticks yet.
SyncIdle ==
    /\ s_statuses = [i \in Siblings |-> 0]
    /\ s_mutex = 0
    /\ s_thr = [t \in Threads |-> ThrIdle]
    /\ s_ncall = 0
    /\ s_last = NoSyncTick

\* func (s *syc) running() bool
SycRunning(statuses) == \E j \in Siblings : statuses[j] = Running

\* SycDisabled never disabling a tick.
SycDisabledNever(statuses, i) == FALSE
\* SycDisabled without the test of the sibling's own status.
SycDisabledAnyRunning(statuses, i) == SycRunning(statuses)
\* status := s.statuses[i]; if status != Running && s.running() { disabled tick }
SycDisabled(statuses, i) == statuses[i] # Running /\ SycRunning(statuses)

\* SycLock not waiting for the mutex to be free.
SycLockUnguarded(t) == s_mutex' = t
\* s.mutex.Lock(): blocks until the mutex is free, then t holds it.
SycLock(t) ==
    /\ s_mutex = 0
    /\ s_mutex' = t

\* Node.Tick() of wrapped sibling i starts: the wrapper takes the lock.
SyncExpandLock(t, i) ==
    /\ t \in s_active
    /\ s_thr[t].pc = "idle"
    /\ s_ncall < MaxSyncCalls
    /\ SycLock(t)
    /\ s_ncall' = s_ncall + 1
    /\ s_thr' = [s_thr EXCEPT ![t] = [ThrIdle EXCEPT !.pc = "expand", !.i = i]]
    /\ UNCHANGED <<s_statuses, s_active, s_last>>

\* tick, children := s.nodes[i](); the wrapper picks the tick to return:
\* nil, the disabled tick (with the status it captured) or the live tick;
\* the deferred Unlock runs.
SyncExpand(t) ==
    /\ s_thr[t].pc = "expand"
    /\ s_mutex = t
    /\ s_mutex' = 0
    /\ LET i == s_thr[t].i
           kind == IF i \in SyncNilTick THEN "nil"
                   ELSE IF SycDisabled(s_statuses, i) THEN "disabled"
                   ELSE "live"
       IN s_thr' = [s_thr EXCEPT ![t] = [pc |-> "ticking", i |-> i, kind |-> kind,
                                          status |-> s_statuses[i],
                                          exp |-> s_statuses]]
    /\ UNCHANGED <<s_statuses, s_active, s_ncall, s_last>>

\* Node.Tick() finds a nil tick: Failure and an error.
SyncTickNil(t) ==
    /\ s_thr[t].pc = "ticking"
    /\ s_thr[t].kind = "nil"
    /\ s_last' = [i |-> s_thr[t].i, kind |-> "nil", real |-> FALSE,
                  ret |-> Res(Failure, NilTickErr), r |-> NoRes,
                  exp |-> s_thr[t].exp, after |-> s_statuses]
    /\ s_thr' = [s_thr EXCEPT ![t] = ThrIdle]
    /\ UNCHANGED <<s_statuses, s_mutex, s_active, s_ncall>>

\* disabled tick - we just return the last status: return status, nil
SyncTickDisabled(t) ==
    /\ s_thr[t].pc = "ticking"
    /\ s_thr[t].kind = "disabled"
    /\ s_last' = [i |-> s_thr[t].i, kind |-> "disabled", real |-> FALSE,
                  ret |-> Res(s_thr[t].status, NoErr), r |-> NoRes,
                  exp |-> s_thr[t].exp, after |-> s_statuses]
    /\ s_thr' = [s_thr EXCEPT ![t] = ThrIdle]
    /\ UNCHANGED <<s_statuses, s_mutex, s_active, s_ncall>>

\* The live tick: s.mutex.Lock()
SyncTickLock(t) ==
    /\ s_thr[t].pc = "ticking"
    /\ s_thr[t].kind = "live"
    /\ SycLock(t)
    /\ s_thr' = [s_thr EXCEPT ![t].pc = "real"]
    /\ UNCHANGED <<s_statuses, s_active, s_ncall, s_last>>

\* status, err := tick(children); s.statuses[i] = status; return status, err
\* (and the deferred Unlock); r is what the real tick returns.
SyncTickReal(t, r) ==
    /\ s_thr[t].pc = "real"
    /\ s_mutex = t
    /\ s_mutex' = 0
    /\ s_statuses' = [s_statuses EXCEPT ![s_thr[t].i] = r.s]
    /\ s_last' = [i |-> s_thr[t].i, kind |-> "live", real |-> TRUE,
                  ret |-> r, r |-> r,
                  exp |-> s_thr[t].exp, after |-> s_statuses']
    /\ s_thr' = [s_thr EXCEPT ![t] = ThrIdle]
    /\ UNCHANGED <<s_active, s_ncall>>

----------------------------------------------------------------------------
(***************************************************************************)
(* A tree of Sequence, Sync and Async                                      *)
(***************************************************************************)
MaxTreeTicks == 6
\* The children of the Sequence: Sync([A, Async(B), C])
TreeA == 1
TreeB == 2
TreeC == 3
\* The real logic of A, B and C returns (Success, nil).
LeafResult == Res(Success, NoErr)

TreeIdle ==
    /\ q_statuses = [i \in Siblings |-> 0]
    /\ q_done = "nil"
    /\ q_buf = <<>>
    /\ q_gor = "none"
    /\ q_pc = 0
    /\ q_ret = NoRes
    /\ q_ncall = 0
    /\ q_log = <<>>
    /\ q_ready = FALSE
    /\ q_passes = 0

\* fmt.Errorf("bt.Sequence encountered error with child at index %d: %s", i, err.Error())
SequenceErr(i, e) == <<"bt.Sequence encountered error with child at index", i - 1>> \o e

\* SequenceAfter going on to the next child when a child is Running.
SequenceAfterPastRunning(i, r) ==
    IF r.e # NoErr THEN [pc |-> 0, ret |-> Res(Failure, SequenceErr(i, r.e))]
    ELSE IF r.s = Failure THEN [pc |-> 0, ret |-> Res(Failure, NoErr)]
    ELSE IF i = TreeC THEN [pc |-> 0, ret |-> Res(Success, NoErr)]
    ELSE [pc |-> i + 1, ret |-> NoRes]
\* Sequence, after child i has returned r: return, or go on to child i + 1
SequenceAfter(i, r) ==
    IF r.e # NoErr THEN [pc |-> 0, ret |-> Res(Failure, SequenceErr(i, r.e))]
    ELSE IF r.s = Running THEN [pc |-> 0, ret |-> RunningNil]
    ELSE IF r.s = Failure THEN [pc |-> 0, ret |-> Res(Failure, NoErr)]
    ELSE IF i = TreeC THEN [pc |-> 0, ret |-> Res(Success, NoErr)]
    ELSE [pc |-> i + 1, ret |-> NoRes]

\* node.Tick() of the tree: Sequence(children) is entered
TreeTickBegin ==
    /\ q_pc = 0
    /\ q_ncall < MaxTreeTicks
    /\ q_ncall' = q_ncall + 1
    /\ q_pc' = TreeA
    /\ q_log' = IF q_ret = Res(Success, NoErr) THEN <<>> ELSE q_log
    /\ q_ready' = (q_gor = "none" /\ q_buf # <<>>)
    /\ UNCHANGED <<q_statuses, q_done, q_buf, q_gor, q_ret, q_passes>>

\* Sequence ticks the wrapped sibling i, A or C: the disabled tick returns the
\* cached status, the live tick runs the real logic and caches its status.
TreeLeaf(i) ==
    /\ q_pc = i
    /\ i \in {TreeA, TreeC}
    /\ LET dis == SycDisabled(q_statuses, i)
           r == IF dis THEN Res(q_statuses[i], NoErr) ELSE LeafResult
           nxt == SequenceAfter(i, r)
       IN /\ q_statuses' = IF dis THEN q_statuses ELSE [q_statuses EXCEPT ![i] = r.s]
          /\ q_log' = IF dis THEN q_log ELSE Append(q_log, i)
          /\ q_pc' = nxt.pc
          /\ q_ret' = IF nxt.pc = 0 THEN nxt.ret ELSE q_ret
          /\ q_passes' = IF nxt.pc = 0 /\ nxt.ret.s = Success THEN q_passes + 1 ELSE q_passes
    /\ UNCHANGED <<q_done, q_buf, q_gor, q_ncall, q_ready>>

\* The tick returned by Async(B):
\*   done == nil     -> make the channel, start the goroutine, (Running, nil)
\*   a result waits  -> done = nil, the result
\*   else            -> (Running, nil)
TreeAsyncTick ==
    IF q_done = "nil" THEN [done |-> "chan", buf |-> <<>>, gor |-> "tick", r |-> RunningNil]
    ELSE IF q_buf # <<>> THEN [done |-> "nil", buf |-> Tail(q_buf), gor |-> q_gor,
                              r |-> Head(q_buf)]
    ELSE [done |-> q_done, buf |-> q_buf, gor |-> q_gor, r |-> RunningNil]

\* Sequence ticks the wrapped sibling Async(B).
TreeAsync ==
    /\ q_pc = TreeB
    /\ LET dis == SycDisabled(q_statuses, TreeB)
           a == TreeAsyncTick
           r == IF dis THEN Res(q_statuses[TreeB], NoErr) ELSE a.r
           nxt == SequenceAfter(TreeB, r)
       IN /\ q_statuses' = IF dis THEN q_statuses ELSE [q_statuses EXCEPT ![TreeB] = r.s]
          /\ q_done' = IF dis THEN q_done ELSE a.done
          /\ q_buf' = IF dis THEN q_buf ELSE a.buf
          /\ q_gor' = IF dis THEN q_gor ELSE a.gor
          /\ q_pc' = nxt.pc
          /\ q_ret' = IF nxt.pc = 0 THEN nxt.ret ELSE q_ret
          /\ q_passes' = IF nxt.pc = 0 /\ nxt.ret.s = Success THEN q_passes + 1 ELSE q_passes
    /\ UNCHANGED <<q_ncall, q_log, q_ready>>

\* status.Status, status.Error = tick(children) in the goroutine: B's real logic
TreeGoTick ==
    /\ q_gor = "tick"
    /\ q_gor' = "send"
    /\ q_log' = Append(q_log, TreeB)
    /\ UNCHANGED <<q_statuses, q_done, q_buf, q_pc, q_ret, q_ncall, q_ready, q_passes>>

\* defer func() { done <- status }() in the goroutine
TreeGoSend ==
    /\ q_gor = "send"
    /\ Len(q_buf) < DoneCap
    /\ q_buf' = Append(q_buf, LeafResult)
    /\ q_gor' = "none"
    /\ UNCHANGED <<q_statuses, q_done, q_pc, q_ret, q_ncall, q_log, q_ready, q_passes>>

----------------------------------------------------------------------------
(***************************************************************************)
(* Ticker                                                                  *)
(***************************************************************************)
MaxTicks == 3
MaxTickerStops == 2
\* context.Canceled and context.DeadlineExceeded
Canceled == <<"context canceled">>
DeadlineExceeded == <<"context deadline exceeded">>
CtxErrs == {Canceled, DeadlineExceeded}
\* What node.Tick() of the ticked node may return.
TickerResults == {Res(Success, NoErr), Res(Running, NoErr), Res(Failure, NoErr),
                  Res(Failure, <<"e1">>), Res(Success, <<"e2">>)}

\* NewTicker: the fields of the tickerCore, go result.run()
TickerIdle ==
    /\ t_pc = "select"
    /\ t_lerr = NoErr
    /\ t_err = NoErr
    /\ t_ctx = NoErr
    /\ t_parent = NoErr
    /\ t_stop = FALSE
    /\ t_once = FALSE
    /\ t_timer = TRUE
    /\ t_C = 0
    /\ t_done = FALSE
    /\ t_nticks = 0
    /\ t_stopCalled = FALSE
    /\ t_tickErr = NoErr
    /\ t_late = FALSE
    /\ t_fail = FALSE
    /\ t_lateF = FALSE
    /\ t_nclose = 0
    /\ t_nstops = 0
    /\ t_panicked = FALSE
    /\ t_postTake = 0
    /\ t_postStop = 0

\* The time.Ticker delivers a tick; it drops it if one is still buffered.
TimerFire ==
    /\ t_timer
    /\ t_C = 0
    /\ t_C' = 1
    /\ UNCHANGED <<t_pc, t_lerr, t_err, t_ctx, t_parent, t_stop, t_once, t_timer,
                   t_done, t_nticks, t_stopCalled, t_tickErr, t_late>>
    /\ UNCHANGED <<t_kind, t_fail, t_lateF, t_nclose, t_nstops>>
    /\ UNCHANGED <<t_panicked, t_postTake, t_postStop>>

\* The context passed to NewTicker is cancelled or times out.
CtxCancel(e) ==
    /\ t_parent = NoErr
    /\ t_parent' = e
    /\ t_ctx' = IF t_ctx = NoErr THEN e ELSE t_ctx
    /\ UNCHANGED <<t_pc, t_lerr, t_err, t_stop, t_once, t_timer, t_C, t_done,
                   t_nticks, t_stopCalled, t_tickErr, t_late>>
    /\ UNCHANGED <<t_kind, t_fail, t_lateF, t_nclose, t_nstops>>
    /\ UNCHANGED <<t_panicked, t_postTake, t_postStop>>

\* TickerOnceBody leaving the stop channel open.
TickerOnceBodyKeepsStopOpen ==
    /\ t_once' = TRUE
    /\ t_timer' = (IF t_once THEN t_timer ELSE FALSE)
    /\ t_stop' = t_stop
    /\ t_nclose' = t_nclose
\* TickerOnceBody leaving the time.Ticker running.
TickerOnceBodyKeepsTimer ==
    /\ t_once' = TRUE
    /\ t_timer' = t_timer
    /\ t_stop' = (IF t_once THEN t_stop ELSE TRUE)
    /\ t_nclose' = (IF t_once THEN t_nclose ELSE t_nclose + 1)
\* TickerOnceBody without the sync.Once around it.
TickerOnceBodyUnguarded ==
    /\ t_once' = TRUE
    /\ t_timer' = FALSE
    /\ t_stop' = TRUE
    /\ t_nclose' = t_nclose + 1
\* t.once.Do(func() { t.ticker.Stop(); close(t.stop) })
TickerOnceBody ==
    /\ t_once' = TRUE
    /\ t_timer' = (IF t_once THEN t_timer ELSE FALSE)
    /\ t_stop' = (IF t_once THEN t_stop ELSE TRUE)
    /\ t_nclose' = (IF t_once THEN t_nclose ELSE t_nclose + 1)

\* Stop() called by a user of the Ticker.
TickerStop ==
    /\ TickerOnceBody
    /\ t_stopCalled' = TRUE
    /\ t_nstops' = IF t_nstops < MaxTickerStops THEN t_nstops + 1 ELSE t_nstops
    /\ UNCHANGED <<t_pc, t_lerr, t_err, t_ctx, t_parent, t_C, t_done, t_nticks,
                   t_tickErr, t_late>>
    /\ UNCHANGED <<t_kind, t_fail, t_lateF>>
    /\ UNCHANGED <<t_panicked, t_postTake, t_postStop>>

\* RunSelectCtx leaving err as it is.
RunSelectCtxNoErr ==
    /\ t_pc = "select"
    /\ t_ctx # NoErr
    /\ t_lerr' = t_lerr
    /\ t_pc' = "store"
    /\ UNCHANGED <<t_err, t_ctx, t_parent, t_stop, t_once, t_timer, t_C, t_done,
                   t_nticks, t_stopCalled, t_tickErr, t_late>>
    /\ UNCHANGED <<t_kind, t_fail, t_lateF, t_nclose, t_nstops>>
    /\ UNCHANGED <<t_panicked, t_postTake, t_postStop>>
\* case <-t.ctx.Done(): err = t.ctx.Err(); break TickLoop
RunSelectCtx ==
    /\ t_pc = "select"
    /\ t_ctx # NoErr
    /\ t_lerr' = t_ctx
    /\ t_pc' = "store"
    /\ UNCHANGED <<t_err, t_ctx, t_parent, t_stop, t_once, t_timer, t_C, t_done,
                   t_nticks, t_stopCalled, t_tickErr, t_late>>
    /\ UNCHANGED <<t_kind, t_fail, t_lateF, t_nclose, t_nstops>>
    /\ UNCHANGED <<t_panicked, t_postTake, t_postStop>>

\* case <-t.stop: break TickLoop
RunSelectStop ==
    /\ t_pc = "select"
    /\ t_stop
    /\ t_pc' = "store"
    /\ UNCHANGED <<t_lerr, t_err, t_ctx, t_parent, t_stop, t_once, t_timer, t_C,
                   t_done, t_nticks, t_stopCalled, t_tickErr, t_late>>
    /\ UNCHANGED <<t_kind, t_fail, t_lateF, t_nclose, t_nstops>>
    /\ UNCHANGED <<t_panicked, t_postTake, t_postStop>>

\* case <-t.ticker.C: the timer tick is taken, node.Tick() comes next
RunSelectTick ==
    /\ t_pc = "select"
    /\ t_C = 1
    /\ t_C' = 0
    /\ t_pc' = "tick"
    /\ t_nticks' = IF t_nticks < MaxTicks THEN t_nticks + 1 ELSE t_nticks
    /\ t_late' = (t_late \/ t_tickErr # NoErr)
    /\ t_lateF' = (t_lateF \/ t_fail)
    /\ t_postTake' = IF t_stopCalled THEN t_postTake + 1 ELSE t_postTake
    /\ UNCHANGED <<t_lerr, t_err, t_ctx, t_parent, t_stop, t_once, t_timer, t_done,
                   t_stopCalled, t_tickErr>>
    /\ UNCHANGED <<t_kind, t_fail, t_nclose, t_nstops>>
    /\ UNCHANGED <<t_panicked, t_postStop>>

\* TickLoopGoesOn going on whatever the tick returned.
TickLoopIgnoresErr(err) == TRUE
\* for err == nil { ... }
TickLoopGoesOn(err) == err = NoErr

\* errExitOnFailure
ErrExitOnFailure == <<"errExitOnFailure">>

\* The error of a tick that returned r: that of the node's tick, which
\* NewTickerStopOnFailure wraps to turn (Failure, nil) into errExitOnFailure.
TickErrOf(r) ==
    IF t_kind = "stopOnFailure" /\ r.e = NoErr /\ r.s = Failure
    THEN ErrExitOnFailure
    ELSE r.e

\* _, err = t.node.Tick() returns r; the loop condition is tested.
RunTick(r) ==
    /\ t_pc = "tick"
    /\ t_lerr' = TickErrOf(r)
    /\ t_pc' = IF TickLoopGoesOn(TickErrOf(r)) THEN "select" ELSE "store"
    /\ t_fail' = (t_fail \/ (r.s = Failure /\ r.e = NoErr))
    /\ t_tickErr' = IF t_tickErr = NoErr THEN r.e ELSE t_tickErr
    /\ t_postStop' = IF t_stopCalled THEN t_postStop + 1 ELSE t_postStop
    /\ UNCHANGED <<t_err, t_ctx, t_parent, t_stop, t_once, t_timer, t_C, t_done,
                   t_nticks, t_stopCalled, t_late>>
    /\ UNCHANGED <<t_kind, t_lateF, t_nclose, t_nstops>>
    /\ UNCHANGED <<t_panicked, t_postTake>>

\* fmt.Errorf("recovered from panic (%T): %+v", r, r)
PanicErr == <<"recovered from panic (string): some_panic">>

\* Recovers with no revision recovering.
RecoversNever(kind) == FALSE
\* Whether run has a deferred recover(): the nodeTicker revision has one,
\* tickerCore.run (NewTicker and NewTickerStopOnFailure) has none.
Recovers(kind) == kind = "nodeTicker"

\* _, err = t.node.Tick() panics. With the deferred recover the panic becomes
\* err and the deferred t.err = err, t.Stop(), t.cancel() and close(t.done)
\* follow; without it the panic leaves the goroutine and ends the process.
RunTickPanic ==
    /\ t_pc = "tick"
    /\ t_panicked' = TRUE
    /\ IF Recovers(t_kind)
       THEN /\ t_lerr' = PanicErr
            /\ t_pc' = "store"
       ELSE /\ t_lerr' = t_lerr
            /\ t_pc' = "crashed"
    /\ UNCHANGED <<t_err, t_ctx, t_parent, t_stop, t_once, t_timer, t_C, t_done,
                   t_nticks, t_stopCalled, t_tickErr, t_late>>
    /\ UNCHANGED <<t_kind, t_fail, t_lateF, t_nclose, t_nstops>>
    /\ UNCHANGED <<t_postTake, t_postStop>>

\* RunStore leaving t.err as it is.
RunStoreSkipped ==
    /\ t_pc = "store"
    /\ t_err' = t_err
    /\ t_pc' = "stopself"
    /\ UNCHANGED <<t_lerr, t_ctx, t_parent, t_stop, t_once, t_timer, t_C, t_done,
                   t_nticks, t_stopCalled, t_tickErr, t_late>>
    /\ UNCHANGED <<t_kind, t_fail, t_lateF, t_nclose, t_nstops>>
    /\ UNCHANGED <<t_panicked, t_postTake, t_postStop>>
\* t.mutex.Lock(); t.err = err; t.mutex.Unlock()
RunStore ==
    /\ t_pc = "store"
    /\ t_err' = t_lerr
    /\ t_pc' = "stopself"
    /\ UNCHANGED <<t_lerr, t_ctx, t_parent, t_stop, t_once, t_timer, t_C, t_done,
                   t_nticks, t_stopCalled, t_tickErr, t_late>>
    /\ UNCHANGED <<t_kind, t_fail, t_lateF, t_nclose, t_nstops>>
    /\ UNCHANGED <<t_panicked, t_postTake, t_postStop>>

\* t.Stop() at the end of run
RunStopSelf ==
    /\ t_pc = "stopself"
    /\ TickerOnceBody
    /\ t_pc' = "cancel"
    /\ UNCHANGED <<t_lerr, t_err, t_ctx, t_parent, t_C, t_done, t_nticks,
                   t_stopCalled, t_tickErr, t_late>>
    /\ UNCHANGED <<t_kind, t_fail, t_lateF, t_nstops>>
    /\ UNCHANGED <<t_panicked, t_postTake, t_postStop>>

\* t.cancel()
RunCancel ==
    /\ t_pc = "cancel"
    /\ t_ctx' = IF t_ctx = NoErr THEN Canceled ELSE t_ctx
    /\ t_pc' = "close"
    /\ UNCHANGED <<t_lerr, t_err, t_parent, t_stop, t_once, t_timer, t_C, t_done,
                   t_nticks, t_stopCalled, t_tickErr, t_late>>
    /\ UNCHANGED <<t_kind, t_fail, t_lateF, t_nclose, t_nstops>>
    /\ UNCHANGED <<t_panicked, t_postTake, t_postStop>>

\* RunClose with the goroutine going round its loop again.
RunCloseInsideLoop ==
    /\ t_pc = "close"
    /\ t_done' = TRUE
    /\ t_pc' = "select"
    /\ UNCHANGED <<t_lerr, t_err, t_ctx, t_parent, t_stop, t_once, t_timer, t_C,
                   t_nticks, t_stopCalled, t_tickErr, t_late>>
    /\ UNCHANGED <<t_kind, t_fail, t_lateF, t_nclose, t_nstops>>
    /\ UNCHANGED <<t_panicked, t_postTake, t_postStop>>
\* close(t.done); the goroutine exits
RunClose ==
    /\ t_pc = "close"
    /\ t_done' = TRUE
    /\ t_pc' = "exited"
    /\ UNCHANGED <<t_lerr, t_err, t_ctx, t_parent, t_stop, t_once, t_timer, t_C,
                   t_nticks, t_stopCalled, t_tickErr, t_late>>
    /\ UNCHANGED <<t_kind, t_fail, t_lateF, t_nclose, t_nstops>>
    /\ UNCHANGED <<t_panicked, t_postTake, t_postStop>>



\* TickerErr letting errExitOnFailure through.
TickerErrUnfiltered == t_err
\* func (t *tickerCore) Err() error, and func (t tickerStopOnFailure) Err()
\* error, which turns errExitOnFailure into nil
TickerErr ==
    IF t_kind = "stopOnFailure" /\ t_err = ErrExitOnFailure THEN NoErr ELSE t_err

----------------------------------------------------------------------------
(***************************************************************************)
(* Manager                                                                 *)
(***************************************************************************)
MaxStopCalls == 2
Tickers == {1, 2}
\* The error ticker k finishes with, if it finishes with one.
TickerErrOf(k) == IF k = 1 THEN "e1" ELSE "e2"
NoTickerErr == "nil"

\* Callers of Add (one per ticker), the user calling Stop, handle goroutines.
AddOf(k) == <<"add", k>>
HandleOf(k) == <<"handle", k>>
StopCaller == <<"stop", 0>>
NoProc == <<"none", 0>>
Procs == {StopCaller} \cup {AddOf(k) : k \in Tickers} \cup {HandleOf(k) : k \in Tickers}

\* Errors: nil, an error made by errors.New, an errManagerTicker (list of
\* errors), an errManagerStopped (wrapping an error of kind wraps).
NilError == [kind |-> "nil", list |-> <<>>, wraps |-> "none"]
NewError(msg) == [kind |-> "atom", list |-> <<msg>>, wraps |-> "none"]
ErrManagerTicker(errs) == [kind |-> "tickers", list |-> errs, wraps |-> "none"]
ErrManagerStoppedOf(err) == [kind |-> "stopped", list |-> err.list, wraps |-> err.kind]
ErrManagerStopped == ErrManagerStoppedOf(NewError("behaviortree.Manager.Add already stopped"))

\* func (e errManagerStopped) Unwrap() error
Unwrap(e) ==
    IF e.kind = "stopped" THEN [kind |-> e.wraps, list |-> e.list, wraps |-> "none"]
    ELSE NilError

\* func (e errManagerTicker) Error() string: the messages with " | " between
RECURSIVE JoinMessages(_)
JoinMessages(errs) ==
    IF Len(errs) = 0 THEN <<>>
    ELSE IF Len(errs) = 1 THEN <<errs[1]>>
    ELSE JoinMessages(SubSeq(errs, 1, Len(errs) - 1)) \o <<" | ", errs[Len(errs)]>>

\* err.Error(); an errManagerStopped has the Error method of what it wraps
ErrorString(e) ==
    IF e.kind = "tickers" \/ (e.kind = "stopped" /\ e.wraps = "tickers")
    THEN JoinMessages(e.list)
    ELSE e.list

\* One round of errors.Is: err == target for a comparable target, else the
\* Is method of err (errManagerTicker.Is, errManagerStopped.Is).
IsRound(e, target) ==
    \/ target.kind # "tickers" /\ e = target
    \/ e.kind = "tickers" /\ \E i \in 1..Len(e.list) : NewError(e.list[i]) = target
    \/ e.kind = "stopped" /\ target.kind = "stopped"

\* errors.Is(e, target): rounds along the Unwrap chain of e
ErrorsIs(e, target) ==
    /\ e.kind # "nil"
    /\ \/ IsRound(e, target)
       \/ Unwrap(e).kind # "nil" /\ IsRound(Unwrap(e), target)

\* ManagerErr reporting only the first recorded error.
ManagerErrFirstOnly ==
    IF Len(mgr_errs) # 0 THEN ErrManagerTicker(SubSeq(mgr_errs, 1, 1)) ELSE NilError
\* func (m *manager) Err() error
ManagerErr ==
    IF Len(mgr_errs) # 0 THEN ErrManagerTicker(mgr_errs) ELSE NilError

\* NewManager, and the tickers, none of them handed to Add yet
ManagerIdle ==
    /\ mgr_stop = FALSE
    /\ mgr_done = FALSE
    /\ mgr_once = "idle"
    /\ mgr_errs = <<>>
    /\ wk_count = 0
    /\ wk_stop = FALSE
    /\ wk_wait = NoProc
    /\ run_pc = "none"
    /\ pc = [p \in Procs |-> IF p[1] = "handle" THEN "none" ELSE "idle"]
    /\ add_err = [k \in Tickers |-> NilError]
    /\ tk_done = [k \in Tickers |-> FALSE]
    /\ tk_err = [k \in Tickers |-> NoTickerErr]
    /\ tk_stops = [k \in Tickers |-> 0]
    /\ mo_stopCalls = 0
    /\ mo_stopReturned = FALSE
    /\ mo_late = [k \in Tickers |-> FALSE]
    /\ mo_rec = <<>>
    /\ mo_trig = [k \in Tickers |-> FALSE]
    /\ mo_raced = [k \in Tickers |-> FALSE]
    /\ mo_seen = [k \in Tickers |-> <<>>]
    /\ mo_after = [k \in Tickers |-> FALSE]
    /\ mo_doneCloses = 0
    /\ mo_stopCloses = 0

\* m.worker.Do(m.run): one more user; run is started if there was none.
WorkerDo ==
    /\ wk_wait = NoProc
    /\ wk_count' = wk_count + 1
    /\ run_pc' = IF wk_count = 0 THEN "select" ELSE run_pc

\* The done func returned by Do, called by p: one user less; the last user
\* closes run's stop channel and waits, holding the mutex, for run to return.
WorkerRelease(p) ==
    /\ wk_wait = NoProc
    /\ wk_count' = wk_count - 1
    /\ wk_stop' = (wk_count = 1)
    /\ wk_wait' = IF wk_count = 1 THEN p ELSE NoProc

\* run has returned: p, waiting in the done func, goes on.
WorkerExited(p) ==
    /\ wk_wait = p
    /\ run_pc = "none"
    /\ wk_wait' = NoProc
    /\ wk_stop' = FALSE

\* Add(ticker), ticker non-nil: done := m.start()
AddStart(k) ==
    /\ pc[AddOf(k)] = "idle"
    /\ WorkerDo
    /\ pc' = [pc EXCEPT ![AddOf(k)] = "sel1"]
    /\ mo_late' = [mo_late EXCEPT ![k] = mo_stopReturned]
    /\ mo_after' = [mo_after EXCEPT ![k] = \E j \in Tickers : pc[HandleOf(j)] = "exited"]
    /\ UNCHANGED <<mo_raced, mo_seen>>
    /\ UNCHANGED <<mo_doneCloses, mo_stopCloses>>
    /\ UNCHANGED <<mgr_stop, mgr_done, mgr_once, mgr_errs, wk_stop, wk_wait,
                   add_err, tk_done, tk_err, tk_stops, mo_stopCalls,
                   mo_stopReturned, mo_rec, mo_trig>>

\* Add: select { case <-m.stop: default: ... }
AddSelectFirst(k) ==
    /\ pc[AddOf(k)] = "sel1"
    /\ pc' = [pc EXCEPT ![AddOf(k)] = IF mgr_stop THEN "release" ELSE "sel2"]
    /\ UNCHANGED <<mo_raced, mo_seen, mo_after>>
    /\ UNCHANGED <<mo_doneCloses, mo_stopCloses>>
    /\ UNCHANGED <<mgr_stop, mgr_done, mgr_once, mgr_errs, wk_count, wk_stop,
                   wk_wait, run_pc, add_err, tk_done, tk_err, tk_stops,
                   mo_stopCalls, mo_stopReturned, mo_late, mo_rec, mo_trig>>

\* Add: the inner select takes case <-m.stop
AddSelectStop(k) ==
    /\ pc[AddOf(k)] = "sel2"
    /\ mgr_stop
    /\ pc' = [pc EXCEPT ![AddOf(k)] = "release"]
    /\ UNCHANGED <<mo_raced, mo_seen, mo_after>>
    /\ UNCHANGED <<mo_doneCloses, mo_stopCloses>>
    /\ UNCHANGED <<mgr_stop, mgr_done, mgr_once, mgr_errs, wk_count, wk_stop,
                   wk_wait, run_pc, add_err, tk_done, tk_err, tk_stops,
                   mo_stopCalls, mo_stopReturned, mo_late, mo_rec, mo_trig>>

\* Add's inner select sends on m.tickers and returns nil; run receives the
\* managerTicker and starts go m.handle(t).
RunReceive(k) ==
    /\ run_pc = "select"
    /\ pc[AddOf(k)] = "sel2"
    /\ pc' = [pc EXCEPT ![AddOf(k)] = "ok", ![HandleOf(k)] = "select"]
    /\ mo_raced' = [mo_raced EXCEPT ![k] = mgr_stop]
    /\ UNCHANGED <<mo_seen, mo_after>>
    /\ UNCHANGED <<mo_doneCloses, mo_stopCloses>>
    /\ UNCHANGED <<mgr_stop, mgr_done, mgr_once, mgr_errs, wk_count, wk_stop,
                   wk_wait, run_pc, add_err, tk_done, tk_err, tk_stops,
                   mo_stopCalls, mo_stopReturned, mo_late, mo_rec, mo_trig>>

\* Where p is once its done func has returned.
Released(p) == IF p[1] = "add" THEN "fail" ELSE "exited"

\* done() in Add, t.Done() in handle
Release(p) ==
    /\ pc[p] = "release"
    /\ WorkerRelease(p)
    /\ pc' = [pc EXCEPT ![p] = IF wk_count = 1 THEN "wait" ELSE Released(p)]
    /\ UNCHANGED <<mo_raced, mo_seen, mo_after>>
    /\ UNCHANGED <<mo_doneCloses, mo_stopCloses>>
    /\ UNCHANGED <<mgr_stop, mgr_done, mgr_once, mgr_errs, run_pc, add_err,
                   tk_done, tk_err, tk_stops, mo_stopCalls, mo_stopReturned,
                   mo_late, mo_rec, mo_trig>>

\* done() / t.Done() returns after run has returned
ReleaseWait(p) ==
    /\ pc[p] = "wait"
    /\ WorkerExited(p)
    /\ pc' = [pc EXCEPT ![p] = Released(p)]
    /\ UNCHANGED <<mo_raced, mo_seen, mo_after>>
    /\ UNCHANGED <<mo_doneCloses, mo_stopCloses>>
    /\ UNCHANGED <<mgr_stop, mgr_done, mgr_once, mgr_errs, wk_count, run_pc,
                   add_err, tk_done, tk_err, tk_stops, mo_stopCalls,
                   mo_stopReturned, mo_late, mo_rec, mo_trig>>

\* AddStoppedError without the recorded ticker errors.
AddStoppedErrorPlain == ErrManagerStopped
\* Add: if err := m.Err(); err != nil { return errManagerStopped{error: err} }
\* return ErrManagerStopped
AddStoppedError ==
    IF ManagerErr # NilError THEN ErrManagerStoppedOf(ManagerErr)
    ELSE ErrManagerStopped

\* Add, the manager being stopped: the error is made and returned
AddFail(k) ==
    /\ pc[AddOf(k)] = "fail"
    /\ add_err' = [add_err EXCEPT ![k] = AddStoppedError]
    /\ pc' = [pc EXCEPT ![AddOf(k)] = "failed"]
    /\ mo_seen' = [mo_seen EXCEPT ![k] = mo_rec]
    /\ UNCHANGED <<mo_raced, mo_after>>
    /\ UNCHANGED <<mo_doneCloses, mo_stopCloses>>
    /\ UNCHANGED <<mgr_stop, mgr_done, mgr_once, mgr_errs, wk_count, wk_stop,
                   wk_wait, run_pc, tk_done, tk_err, tk_stops, mo_stopCalls,
                   mo_stopReturned, mo_late, mo_rec, mo_trig>>

\* A user of the manager calls Stop().
StopCall ==
    /\ pc[StopCaller] = "idle"
    /\ mo_stopCalls < MaxStopCalls
    /\ mo_stopCalls' = mo_stopCalls + 1
    /\ pc' = [pc EXCEPT ![StopCaller] = "stop"]
    /\ UNCHANGED <<mo_raced, mo_seen, mo_after>>
    /\ UNCHANGED <<mo_doneCloses, mo_stopCloses>>
    /\ UNCHANGED <<mgr_stop, mgr_done, mgr_once, mgr_errs, wk_count, wk_stop,
                   wk_wait, run_pc, add_err, tk_done, tk_err, tk_stops,
                   mo_stopReturned, mo_late, mo_rec, mo_trig>>

\* Where p is once m.Stop() has returned.
Stopped(p) == IF p = StopCaller THEN "idle" ELSE "release"

\* StopOnce leaving m.stop open.
StopOnceKeepsOpen(p) ==
    /\ pc[p] = "stop"
    /\ mgr_once # "running"
    /\ mgr_once' = IF mgr_once = "idle" THEN "running" ELSE mgr_once
    /\ pc' = [pc EXCEPT ![p] = IF mgr_once = "idle" THEN "sstart" ELSE Stopped(p)]
    /\ mo_stopReturned' = (mo_stopReturned \/ (mgr_once = "done" /\ p = StopCaller))
    /\ UNCHANGED <<mgr_stop, mgr_done, mgr_errs, wk_count, wk_stop, wk_wait, run_pc,
                   add_err, tk_done, tk_err, tk_stops, mo_stopCalls, mo_late,
                   mo_rec, mo_trig, mo_raced, mo_seen, mo_after, mo_doneCloses,
                   mo_stopCloses>>

\* m.once.Do: the first caller closes m.stop and goes on in the body; a
\* caller arriving while the body runs waits; afterwards Stop just returns.
StopOnce(p) ==
    /\ pc[p] = "stop"
    /\ mgr_once # "running"
    /\ mgr_once' = IF mgr_once = "idle" THEN "running" ELSE mgr_once
    /\ mgr_stop' = TRUE
    /\ pc' = [pc EXCEPT ![p] = IF mgr_once = "idle" THEN "sstart" ELSE Stopped(p)]
    /\ mo_stopReturned' = (mo_stopReturned \/ (mgr_once = "done" /\ p = StopCaller))
    /\ mo_stopCloses' = IF mgr_once = "idle" THEN mo_stopCloses + 1 ELSE mo_stopCloses
    /\ UNCHANGED <<mo_raced, mo_seen, mo_after, mo_doneCloses>>
    /\ UNCHANGED <<mgr_done, mgr_errs, wk_count, wk_stop, wk_wait, run_pc,
                   add_err, tk_done, tk_err, tk_stops, mo_stopCalls, mo_late,
                   mo_rec, mo_trig>>

\* Stop: m.start()
StopStart(p) ==
    /\ pc[p] = "sstart"
    /\ WorkerDo
    /\ pc' = [pc EXCEPT ![p] = "srelease"]
    /\ UNCHANGED <<mo_raced, mo_seen, mo_after>>
    /\ UNCHANGED <<mo_doneCloses, mo_stopCloses>>
    /\ UNCHANGED <<mgr_stop, mgr_done, mgr_once, mgr_errs, wk_stop, wk_wait,
                   add_err, tk_done, tk_err, tk_stops, mo_stopCalls,
                   mo_stopReturned, mo_late, mo_rec, mo_trig>>

\* Stop: the done func of m.start() is called at once
StopRelease(p) ==
    /\ pc[p] = "srelease"
    /\ WorkerRelease(p)
    /\ pc' = [pc EXCEPT ![p] = IF wk_count = 1 THEN "swait" ELSE Stopped(p)]
    /\ mgr_once' = IF wk_count = 1 THEN mgr_once ELSE "done"
    /\ mo_stopReturned' = (mo_stopReturned \/ (wk_count # 1 /\ p = StopCaller))
    /\ UNCHANGED <<mo_raced, mo_seen, mo_after>>
    /\ UNCHANGED <<mo_doneCloses, mo_stopCloses>>
    /\ UNCHANGED <<mgr_stop, mgr_done, mgr_errs, run_pc, add_err, tk_done,
                   tk_err, tk_stops, mo_stopCalls, mo_late, mo_rec, mo_trig>>

\* Stop returns after run has returned
StopWait(p) ==
    /\ pc[p] = "swait"
    /\ WorkerExited(p)
    /\ pc' = [pc EXCEPT ![p] = Stopped(p)]
    /\ mgr_once' = "done"
    /\ mo_stopReturned' = (mo_stopReturned \/ p = StopCaller)
    /\ UNCHANGED <<mo_raced, mo_seen, mo_after>>
    /\ UNCHANGED <<mo_doneCloses, mo_stopCloses>>
    /\ UNCHANGED <<mgr_stop, mgr_done, mgr_errs, wk_count, run_pc, add_err,
                   tk_done, tk_err, tk_stops, mo_stopCalls, mo_late, mo_rec,
                   mo_trig>>

\* RunClosesDone closing m.done whether or not m.stop is closed.
RunClosesDoneAlways == TRUE
\* run, case <-stop: m.done ends up closed if m.stop is closed
RunClosesDone == mgr_done \/ mgr_stop

\* RunClosesNow without looking at m.done first.
RunClosesNowUnguarded == mgr_stop
\* run, case <-stop: close(m.done) is executed if m.stop is closed and m.done
\* is not (select { case <-m.done: default: close(m.done) })
RunClosesNow == mgr_stop /\ ~mgr_done

\* run: case <-stop: ...; return
RunStop ==
    /\ run_pc = "select"
    /\ wk_stop
    /\ mgr_done' = RunClosesDone
    /\ mo_doneCloses' = IF RunClosesNow THEN mo_doneCloses + 1 ELSE mo_doneCloses
    /\ run_pc' = "none"
    /\ UNCHANGED <<mo_raced, mo_seen, mo_after, mo_stopCloses>>
    /\ UNCHANGED <<mgr_stop, mgr_once, mgr_errs, wk_count, wk_stop, wk_wait,
                   pc, add_err, tk_done, tk_err, tk_stops, mo_stopCalls,
                   mo_stopReturned, mo_late, mo_rec, mo_trig>>

\* HandleDoneStopsTicker leaving the finished ticker alone.
HandleDoneLeavesTicker(n) == n
\* handle, case <-t.Ticker.Done(): t.Ticker.Stop() ("this stop shouldn't be
\* necessary, but has been retained")
HandleDoneStopsTicker(n) == n + 1

\* handle: case <-t.Ticker.Done(): t.Ticker.Stop()
HandleDone(k) ==
    /\ pc[HandleOf(k)] = "select"
    /\ tk_done[k]
    /\ tk_stops' = [tk_stops EXCEPT ![k] = HandleDoneStopsTicker(@)]
    /\ pc' = [pc EXCEPT ![HandleOf(k)] = "err"]
    /\ UNCHANGED <<mo_raced, mo_seen, mo_after>>
    /\ UNCHANGED <<mo_doneCloses, mo_stopCloses>>
    /\ UNCHANGED <<mgr_stop, mgr_done, mgr_once, mgr_errs, wk_count, wk_stop,
                   wk_wait, run_pc, add_err, tk_done, tk_err, mo_stopCalls,
                   mo_stopReturned, mo_late, mo_rec, mo_trig>>

\* HandleStopsTicker leaving the ticker alone.
HandleLeavesTicker(n) == n
\* handle, case <-m.stop: t.Ticker.Stop()
HandleStopsTicker(n) == n + 1

\* HandleAfterStop not waiting for the ticker.
HandleAfterStopNoWait == "err"
\* handle, case <-m.stop: <-t.Ticker.Done() comes next
HandleAfterStop == "waitdone"

\* handle: case <-m.stop: t.Ticker.Stop()
HandleStop(k) ==
    /\ pc[HandleOf(k)] = "select"
    /\ mgr_stop
    /\ tk_stops' = [tk_stops EXCEPT ![k] = HandleStopsTicker(@)]
    /\ pc' = [pc EXCEPT ![HandleOf(k)] = HandleAfterStop]
    /\ UNCHANGED <<mo_raced, mo_seen, mo_after>>
    /\ UNCHANGED <<mo_doneCloses, mo_stopCloses>>
    /\ UNCHANGED <<mgr_stop, mgr_done, mgr_once, mgr_errs, wk_count, wk_stop,
                   wk_wait, run_pc, add_err, tk_done, tk_err, mo_stopCalls,
                   mo_stopReturned, mo_late, mo_rec, mo_trig>>

\* handle: <-t.Ticker.Done() after the ticker was stopped
HandleWaitDone(k) ==
    /\ pc[HandleOf(k)] = "waitdone"
    /\ tk_done[k]
    /\ pc' = [pc EXCEPT ![HandleOf(k)] = "err"]
    /\ UNCHANGED <<mo_raced, mo_seen, mo_after>>
    /\ UNCHANGED <<mo_doneCloses, mo_stopCloses>>
    /\ UNCHANGED <<mgr_stop, mgr_done, mgr_once, mgr_errs, wk_count, wk_stop,
                   wk_wait, run_pc, add_err, tk_done, tk_err, tk_stops,
                   mo_stopCalls, mo_stopReturned, mo_late, mo_rec, mo_trig>>

\* HandleHasErr taking every finished ticker as successful.
HandleHasErrNever(err) == FALSE
\* HandleHasErr taking every finished ticker as failed.
HandleHasErrAlways(err) == TRUE
\* handle: if err := t.Ticker.Err(); err != nil
HandleHasErr(err) == err # NoTickerErr

\* HandleRecord putting the new error first.
HandleRecordFirst(errs, err) == <<err>> \o errs
\* handle: m.errs = append(m.errs, err)
HandleRecord(errs, err) == Append(errs, err)

\* handle: the ticker's error, if any, is recorded under m.mu and m.Stop()
\* is called; then t.Done()
HandleErr(k) ==
    /\ pc[HandleOf(k)] = "err"
    /\ IF HandleHasErr(tk_err[k])
       THEN /\ mgr_errs' = HandleRecord(mgr_errs, tk_err[k])
            /\ mo_rec' = Append(mo_rec, k)
            /\ mo_trig' = [mo_trig EXCEPT ![k] = TRUE]
            /\ pc' = [pc EXCEPT ![HandleOf(k)] = "stop"]
       ELSE /\ pc' = [pc EXCEPT ![HandleOf(k)] = "release"]
            /\ UNCHANGED <<mgr_errs, mo_rec, mo_trig>>
    /\ UNCHANGED <<mo_raced, mo_seen, mo_after>>
    /\ UNCHANGED <<mo_doneCloses, mo_stopCloses>>
    /\ UNCHANGED <<mgr_stop, mgr_done, mgr_once, wk_count, wk_stop, wk_wait,
                   run_pc, add_err, tk_done, tk_err, tk_stops, mo_stopCalls,
                   mo_stopReturned, mo_late>>

\* Ticker k closes its Done(), with Err() being err from then on.
TickerFinish(k, err) ==
    /\ ~tk_done[k]
    /\ tk_done' = [tk_done EXCEPT ![k] = TRUE]
    /\ tk_err' = [tk_err EXCEPT ![k] = err]
    /\ UNCHANGED <<mo_raced, mo_seen, mo_after>>
    /\ UNCHANGED <<mo_doneCloses, mo_stopCloses>>
    /\ UNCHANGED <<mo_raced, mo_seen, mo_after>>
    /\ UNCHANGED <<mo_doneCloses, mo_stopCloses>>
    /\ UNCHANGED <<mgr_stop, mgr_done, mgr_once, mgr_errs, wk_count, wk_stop,
                   wk_wait, run_pc, pc, add_err, tk_stops, mo_stopCalls,
                   mo_stopReturned, mo_late, mo_rec, mo_trig>>

----------------------------------------------------------------------------
(***************************************************************************)
(* Specifications: one per wrapper; the state of the others stays put.     *)
(***************************************************************************)
\* Siblings of a Sync set ticked one at a time, from one goroutine.
OneCaller == s_active = {1}

\* The Ticker was made by NewTicker.
PlainTicker == t_kind = "core"
Init == AsyncIdle /\ ForkIdle /\ BgIdle /\ MemIdle /\ SyncIdle /\ OneCaller /\ TickerIdle
        /\ PlainTicker
        /\ ManagerIdle /\ TreeIdle

AsyncFrame == UNCHANGED <<forkVars, bgVars, memVars, syncVars, tickerVars, managerVars,
                      treeVars>>

NextAsync ==
    \/ AsyncFrame /\ \E c \in ChildArgs : AsyncCall(c)
    \/ AsyncFrame /\ \E g \in a_gor, r \in Results : AsyncGoTick(g, r)
    \/ AsyncFrame /\ \E g \in a_gor : AsyncGoSend(g)
SpecAsync == Init /\ [][NextAsync]_vars
\* The goroutine spawned by Async is scheduled; nothing is assumed about the
\* callers of the Async tick, which may stop calling at any time.
SpecAsyncFair == SpecAsync /\ WF_vars(AsyncFrame /\ \E g \in a_gor : AsyncGoSend(g))

ForkFrame == UNCHANGED <<asyncVars, bgVars, memVars, syncVars, tickerVars, managerVars,
                      treeVars>>

NextFork ==
    \/ ForkFrame /\ \E c \in ForkArgs : ForkCallBegin(c)
    \/ ForkFrame /\ \E g \in f_gor : \E r \in ForkResults(g.node) : ForkGoTick(g, r)
    \/ ForkFrame /\ \E g \in f_gor : ForkGoSend(g)
    \/ ForkFrame /\ ForkDrain
    \/ ForkFrame /\ ForkCallEnd
SpecFork == Init /\ [][NextFork]_vars

BackgroundFrame == UNCHANGED <<asyncVars, forkVars, memVars, syncVars, tickerVars, managerVars,
                      treeVars>>

NextBackground ==
    \/ BackgroundFrame /\ \E c \in ChildArgs, t \in GenTicks : BackgroundCall(c, t)
SpecBackground == Init /\ [][NextBackground]_vars
\* The Background tick keeps being called (as long as the model lets it),
\* always with the same children and a generator whose ticks differ in how
\* long they stay Running only.
BgSteadyTicks == {t \in GenTicks : t.res.s \in {Invalid, Success}}
NextBackgroundSteady ==
    \/ BackgroundFrame /\ \E t \in BgSteadyTicks : BackgroundCall("cA", t)
SpecBackgroundFair ==
    Init /\ [][NextBackgroundSteady]_vars /\ WF_vars(NextBackgroundSteady)

MemorizeFrame == UNCHANGED <<asyncVars, forkVars, bgVars, syncVars, tickerVars, managerVars,
                      treeVars>>

NextMemorize ==
    \/ MemorizeFrame /\ \E c \in MemArgs : MemCallBegin(c)
    \/ MemorizeFrame /\ \E i \in 1..MaxMemKids, r \in MemResults : MemChildTick(i, r)
    \/ MemorizeFrame /\ \E r \in MemResults : MemCallEnd(r)
SpecMemorize == Init /\ [][NextMemorize]_vars

SyncFrame == UNCHANGED <<asyncVars, forkVars, bgVars, memVars, tickerVars, managerVars,
                      treeVars>>

NextSync ==
    \/ SyncFrame /\ \E t \in Threads, i \in Siblings : SyncExpandLock(t, i)
    \/ SyncFrame /\ \E t \in Threads : SyncExpand(t)
    \/ SyncFrame /\ \E t \in Threads : SyncTickNil(t)
    \/ SyncFrame /\ \E t \in Threads : SyncTickDisabled(t)
    \/ SyncFrame /\ \E t \in Threads : SyncTickLock(t)
    \/ SyncFrame /\ \E t \in Threads, r \in SyncResults : SyncTickReal(t, r)
SpecSync == Init /\ [][NextSync]_vars

TickerFrame == UNCHANGED <<asyncVars, forkVars, bgVars, memVars, syncVars, managerVars,
                      treeVars>>

NextTicker ==
    \/ TickerFrame /\ TimerFire
    \/ TickerFrame /\ \E e \in CtxErrs : CtxCancel(e)
    \/ TickerFrame /\ TickerStop
    \/ TickerFrame /\ RunSelectCtx
    \/ TickerFrame /\ RunSelectStop
    \/ TickerFrame /\ RunSelectTick
    \/ TickerFrame /\ \E r \in TickerResults : RunTick(r)
    \/ TickerFrame /\ RunStore
    \/ TickerFrame /\ RunStopSelf
    \/ TickerFrame /\ RunCancel
    \/ TickerFrame /\ RunClose
SpecTicker == Init /\ [][NextTicker]_vars

\* The run goroutine is scheduled, node.Tick() returns, and a select that is
\* ready over and over is eventually taken on each of its ready cases (the
\* Go runtime picks among ready cases at random).
TickerFairness ==
    /\ SF_vars(TickerFrame /\ RunSelectCtx)
    /\ SF_vars(TickerFrame /\ RunSelectStop)
    /\ WF_vars(TickerFrame /\ \E r \in TickerResults : RunTick(r))
    /\ WF_vars(TickerFrame /\ RunStore)
    /\ WF_vars(TickerFrame /\ RunStopSelf)
    /\ WF_vars(TickerFrame /\ RunCancel)
    /\ WF_vars(TickerFrame /\ RunClose)
SpecTickerFair == SpecTicker /\ TickerFairness

\* The Ticker was made by NewTickerStopOnFailure.
StopOnFailureTicker == t_kind = "stopOnFailure"
InitStopOnFailure ==
    /\ AsyncIdle /\ ForkIdle /\ BgIdle /\ MemIdle /\ SyncIdle /\ OneCaller
    /\ TickerIdle /\ StopOnFailureTicker /\ ManagerIdle /\ TreeIdle
SpecStopOnFailure == InitStopOnFailure /\ [][NextTicker]_vars
\* The run goroutine has not taken the process down.
ProcessAlive == t_pc # "crashed"
\* The Ticker was made by NewTicker, of either revision, for a node whose
\* tick may panic.
EitherRevision == t_kind \in {"core", "nodeTicker"}
InitTickerPanic == AsyncIdle /\ ForkIdle /\ BgIdle /\ MemIdle /\ SyncIdle /\ OneCaller
                   /\ TickerIdle /\ EitherRevision /\ ManagerIdle /\ TreeIdle
NextTickerPanic ==
    \/ TickerFrame /\ ProcessAlive /\ TimerFire
    \/ TickerFrame /\ ProcessAlive /\ \E e \in CtxErrs : CtxCancel(e)
    \/ TickerFrame /\ ProcessAlive /\ TickerStop
    \/ TickerFrame /\ RunSelectCtx
    \/ TickerFrame /\ RunSelectStop
    \/ TickerFrame /\ RunSelectTick
    \/ TickerFrame /\ \E r \in TickerResults : RunTick(r)
    \/ TickerFrame /\ RunTickPanic
    \/ TickerFrame /\ RunStore
    \/ TickerFrame /\ RunStopSelf
    \/ TickerFrame /\ RunCancel
    \/ TickerFrame /\ RunClose
SpecTickerPanic == InitTickerPanic /\ [][NextTickerPanic]_vars
SpecTickerPanicFair == SpecTickerPanic /\ TickerFairness

SpecStopOnFailureFair == SpecStopOnFailure /\ TickerFairness

TreeFrame == UNCHANGED <<asyncVars, forkVars, bgVars, memVars, syncVars, tickerVars,
                        managerVars>>

NextTree ==
    \/ TreeFrame /\ TreeTickBegin
    \/ TreeFrame /\ \E i \in {TreeA, TreeC} : TreeLeaf(i)
    \/ TreeFrame /\ TreeAsync
    \/ TreeFrame /\ TreeGoTick
    \/ TreeFrame /\ TreeGoSend
SpecTree == Init /\ [][NextTree]_vars

ManagerFrame == UNCHANGED <<asyncVars, forkVars, bgVars, memVars, syncVars, tickerVars,
                      treeVars>>

NextManager ==
    \/ ManagerFrame /\ \E k \in Tickers : AddStart(k)
    \/ ManagerFrame /\ \E k \in Tickers : AddSelectFirst(k)
    \/ ManagerFrame /\ \E k \in Tickers : AddSelectStop(k)
    \/ ManagerFrame /\ \E k \in Tickers : RunReceive(k)
    \/ ManagerFrame /\ \E p \in Procs : Release(p)
    \/ ManagerFrame /\ \E p \in Procs : ReleaseWait(p)
    \/ ManagerFrame /\ \E k \in Tickers : AddFail(k)
    \/ ManagerFrame /\ StopCall
    \/ ManagerFrame /\ \E p \in Procs : StopOnce(p)
    \/ ManagerFrame /\ \E p \in Procs : StopStart(p)
    \/ ManagerFrame /\ \E p \in Procs : StopRelease(p)
    \/ ManagerFrame /\ \E p \in Procs : StopWait(p)
    \/ ManagerFrame /\ RunStop
    \/ ManagerFrame /\ \E k \in Tickers : HandleDone(k)
    \/ ManagerFrame /\ \E k \in Tickers : HandleStop(k)
    \/ ManagerFrame /\ \E k \in Tickers : HandleWaitDone(k)
    \/ ManagerFrame /\ \E k \in Tickers : HandleErr(k)
    \/ ManagerFrame /\ \E k \in Tickers : TickerFinish(k, NoTickerErr)
    \/ ManagerFrame /\ \E k \in Tickers : TickerFinish(k, TickerErrOf(k))
SpecManager == Init /\ [][NextManager]_vars

\* A step of the Add call for ticker k, once it has started.
AddStep(k) ==
    \/ AddSelectFirst(k) \/ AddSelectStop(k) \/ RunReceive(k)
    \/ Release(AddOf(k)) \/ ReleaseWait(AddOf(k)) \/ AddFail(k)
\* A step of the handle goroutine of ticker k.
HandleStep(k) ==
    \/ HandleDone(k) \/ HandleStop(k) \/ HandleWaitDone(k) \/ HandleErr(k)
    \/ StopOnce(HandleOf(k)) \/ StopStart(HandleOf(k)) \/ StopRelease(HandleOf(k))
    \/ StopWait(HandleOf(k)) \/ Release(HandleOf(k)) \/ ReleaseWait(HandleOf(k))
\* A step of a Stop() call of the user, once it was made.
StopStep ==
    \/ StopOnce(StopCaller) \/ StopStart(StopCaller)
    \/ StopRelease(StopCaller) \/ StopWait(StopCaller)
\* Ticker k, Stop() having been called on it, closes its Done().
StoppedTickerFinish(k) ==
    /\ tk_stops[k] > 0
    /\ \E e \in {NoTickerErr, TickerErrOf(k)} : TickerFinish(k, e)

\* Every goroutine that can take a step is scheduled, and a ticker that was
\* stopped closes its Done(). Calling Add or Stop is up to the user.
ManagerFairness ==
    /\ \A k \in Tickers : WF_vars(ManagerFrame /\ AddStep(k))
    /\ \A k \in Tickers : WF_vars(ManagerFrame /\ HandleStep(k))
    /\ \A k \in Tickers : WF_vars(ManagerFrame /\ StoppedTickerFinish(k))
    /\ WF_vars(ManagerFrame /\ StopStep)
    /\ WF_vars(ManagerFrame /\ RunStop)
SpecManagerFair == SpecManager /\ ManagerFairness

\* Siblings of a Sync set ticked from several goroutines at once, as the
\* children of Fork are.
ManyCallers == s_active = Threads
InitSyncConc == AsyncIdle /\ ForkIdle /\ BgIdle /\ MemIdle /\ SyncIdle /\ ManyCallers /\ TickerIdle
                /\ PlainTicker
                /\ ManagerIdle /\ TreeIdle
SpecSyncConc == InitSyncConc /\ [][NextSync]_vars

----------------------------------------------------------------------------
(***************************************************************************)
(* Properties                                                              *)
(***************************************************************************)
\* C1: at most one goroutine running the wrapped tick exists at any time,
\* and a goroutine is spawned only by a call made when no earlier spawn is
\* still in flight or has its result still waiting in the channel.
C1_AsyncOneGoroutine ==
    /\ [](Cardinality(a_gor) <= 1)
    /\ [][a_nspawn' # a_nspawn =>
            /\ a_ncall' = a_ncall + 1
            /\ a_gor = {}
            /\ a_buf = <<>>
            /\ Cardinality(a_gor') = 1]_vars

\* A second spawn has happened and its goroutine is the only one in flight,
\* after further calls were made while the first one was running.
C1_Witness == a_nspawn = 2 /\ Cardinality(a_gor) = 1 /\ a_ncall = MaxCalls

\* A spawn has been made whose result no call has returned yet.
AsyncPending == a_nspawn > 0 /\ a_ncollect = 0
\* The goroutine of the current spawn has delivered its result and exited.
AsyncFinished == a_gor = {}

\* C2: after a spawn, a call made before the goroutine has finished returns
\* (Running, nil); the first call made after it has finished returns exactly
\* what the wrapped tick produced, no other call returns that result, and
\* the call after that one spawns the wrapped tick afresh.
C2_AsyncResultOnce ==
    [][a_ncall' # a_ncall =>
        /\ (AsyncPending /\ ~AsyncFinished) =>
                (a_ret' = RunningNil /\ a_nspawn' = a_nspawn /\ a_ncollect' = 0)
        /\ (AsyncPending /\ AsyncFinished) =>
                (a_ret' = a_prod /\ a_nspawn' = a_nspawn /\ a_ncollect' = 1)
        /\ ~AsyncPending =>
                /\ a_ret' = RunningNil
                /\ a_nspawn' = a_nspawn + 1
                /\ a_ncollect' = 0
                /\ \E g \in a_gor' : g.id = a_nspawn' /\ g.pc = "tick"]_vars

\* A call has just returned the result of the spawn, a Success status with an
\* error, exactly as the wrapped tick produced it, and cleared the marker.
C2_Witness ==
    /\ a_ncollect = 1
    /\ a_ret = a_prod
    /\ a_ret = Res(Success, <<"e1">>)
    /\ a_done = "nil"


\* A Fork call has returned and no other is in progress.
ForkReturned == f_pc = "idle" /\ f_ncall > 0
\* A child of the current call returned Running with a nil error.
ForkSomeRunning == \E c \in o_expect : StillRunning(o_final[c])
\* The last call that returned ended its cycle.
ForkCycleOver == ForkReturned /\ ~ForkSomeRunning

\* C3: a Fork call ticks exactly the children still pending (all children of
\* the call that starts the cycle, afterwards those that returned Running
\* with a nil error in the previous call), each exactly once; it returns
\* (Running, nil) exactly when one of them returned Running with a nil error.
C3_ForkTicksPending ==
    /\ \A c \in ForkKids : o_ticks[c] <= (IF c \in o_expect THEN 1 ELSE 0)
    /\ ForkReturned =>
        /\ \A c \in ForkKids : o_ticks[c] = (IF c \in o_expect THEN 1 ELSE 0)
        /\ (f_ret = RunningNil) <=> ForkSomeRunning
        /\ ForkSomeRunning => (f_status # 0 /\ Range(f_remaining) =
                                  {c \in o_expect : StillRunning(o_final[c])})
        /\ ~ForkSomeRunning => (f_status = 0 /\ f_err = NoErr)

\* The third call of a cycle has returned Running: child 3 finished in an
\* earlier round and was not ticked by this call, child 1 is still pending.
C3_Witness ==
    /\ ForkReturned
    /\ o_rounds = 3
    /\ o_kids = <<2, 1, 3>>
    /\ o_expect = {1, 2}
    /\ o_final[3] = Res(Running, ErrOf(3))
    /\ o_final[2] = Res(Failure, NoErr)
    /\ f_ret = RunningNil

\* C4: the call that ends a cycle returns (Success, nil) exactly when every
\* child's final result was Success with a nil error; otherwise it returns
\* Failure, with an error exactly when some child returned one; with no
\* children it returns (Success, nil).
C4_ForkAggregate ==
    ForkCycleOver =>
        LET kids == Range(o_kids)
            allOK == \A c \in kids : o_final[c] = Res(Success, NoErr)
            anyErr == \E c \in kids : o_final[c].e # NoErr
        IN  /\ (f_ret = Res(Success, NoErr)) <=> allOK
            /\ ~allOK => (f_ret.s = Failure /\ ((f_ret.e # NoErr) <=> anyErr))
            /\ kids = {} => f_ret = Res(Success, NoErr)

\* A cycle of two rounds ended in (Failure, nil) because one child returned
\* the zero status, no child having returned an error.
C4_Witness ==
    /\ ForkCycleOver
    /\ o_rounds = 2
    /\ o_kids = <<1, 2>>
    /\ o_final[1] = Res(Invalid, NoErr)
    /\ o_final[2] = Res(Success, NoErr)
    /\ f_ret = Res(Failure, NoErr)

\* The errors of the children of the cycle, in child declaration order.
RECURSIVE DeclJoin(_, _)
DeclJoin(kids, final) ==
    IF kids = <<>> THEN NoErr
    ELSE final[Head(kids)].e \o DeclJoin(Tail(kids), final)

\* C5 as stated: the errors returned in one round are joined in child
\* declaration order, whichever goroutine delivers first.
C5_DeclarationOrder ==
    (ForkCycleOver /\ o_rounds = 1) => f_ret.e = DeclJoin(o_kids, o_final)

\* C5 (amended): the errors the children return are joined in the order in
\* which the child goroutines deliver their results on the outputs channel.
C5_ArrivalOrder ==
    /\ ForkCycleOver => f_ret.e = o_arrival
    /\ (f_pc = "drain" /\ f_x = f_count) => f_err = o_arrival

\* Children 1 and 2, declared in that order, both returned an error in the
\* only round of the cycle, and child 2 delivered first.
C5_Witness ==
    /\ ForkCycleOver
    /\ o_rounds = 1
    /\ o_kids = <<1, 2>>
    /\ o_final[1].e = ErrOf(1)
    /\ o_final[2].e = ErrOf(2)
    /\ f_ret = Res(Failure, <<"e2", "e1">>)

\* C6: every generated task has its terminal result returned by at most one
\* call, unmodified, and at all times tasks generated = terminal results
\* returned + tasks queued; a queued task has not had its result returned.
C6_BgConservation ==
    /\ b_ngen = Len(b_term) + Len(b_nodes)
    /\ Len(b_reg) = b_ngen
    /\ \A j, k \in 1..Len(b_term) : b_term[j].id = b_term[k].id => j = k
    /\ \A j, k \in 1..Len(b_nodes) : b_nodes[j].id = b_nodes[k].id => j = k
    /\ \A j \in 1..Len(b_nodes), k \in 1..Len(b_term) : b_nodes[j].id # b_term[k].id
    /\ \A k \in 1..Len(b_term) :
        /\ b_term[k].id \in 1..b_ngen
        /\ b_term[k].res = (IF b_reg[b_term[k].id].nil
                              THEN Res(Failure, NilTickErr)
                              ELSE b_reg[b_term[k].id].res)
    /\ (b_ncall > 0 /\ ~StillRunning(b_ret)) =>
            (b_term # <<>> /\ b_ret = b_term[Len(b_term)].res)
    /\ (b_ncall > 0 /\ StillRunning(b_ret)) => Len(b_term) < b_ncall

\* Three tasks were generated; the second one's result, a Running status with
\* an error, has been returned while the first and the third stay queued.
C6_Witness ==
    /\ b_ngen = 3
    /\ Len(b_nodes) = 2
    /\ Ids(b_nodes) = <<1, 3>>
    /\ b_term = <<[id |-> 2, res |-> Res(Running, <<"e1">>)]>>
    /\ b_ret = Res(Running, <<"e1">>)

\* The index of the oldest task of queue q whose next tick is not (Running, nil).
OldestDone(q) ==
    CHOOSE k \in 1..Len(q) :
        ~StillRunning(NodeTick(q[k])) /\ \A j \in 1..(k-1) : StillRunning(NodeTick(q[j]))

\* C7: a call that finds a queued task whose tick is not (Running, nil) ticks
\* the queue oldest first up to the first such task and no further, removes
\* that task and returns its result, does not invoke the generator (so the
\* children of the call are used for nothing), and keeps the other tasks in
\* their order, those behind the removed one untouched.
C7_BgOldestFirst ==
    [][(b_ncall' # b_ncall /\ \E k \in 1..Len(b_nodes) : ~StillRunning(NodeTick(b_nodes[k]))) =>
        LET q == b_nodes
            k == OldestDone(q)
        IN  /\ b_log' = SubSeq(Ids(q), 1, k)
            /\ b_ret' = NodeTick(q[k])
            /\ b_gen' = 0
            /\ b_ngen' = b_ngen
            /\ Ids(b_nodes') = SubSeq(Ids(q), 1, k - 1) \o SubSeq(Ids(q), k + 1, Len(q))
            /\ \A j \in 1..(k-1) : b_nodes'[j] = Ticked(q[j])
            /\ \A j \in (k+1)..Len(q) : b_nodes'[j - 1] = q[j]]_vars

\* The last call ticked tasks 1 and 2 of a queue of three, returned the result
\* of task 2 and left task 3, which was also due, unticked behind task 1.
C7_Witness ==
    /\ b_log = <<1, 2>>
    /\ b_gen = 0
    /\ b_ngen = 3
    /\ Ids(b_nodes) = <<1, 3>>
    /\ b_nodes[2].left = 0
    /\ b_ret = Res(Invalid, NoErr)

\* A child tick has just been made by the wrapped tick.
MemTicked == m_nticks' = m_nticks + 1

\* C8: within one execution, once the real tick of a child has returned a
\* non-Running status or an error, no later tick of that child invokes the
\* real tick, and every later tick of it returns the recorded result.
C8_MemorizeOnce ==
    [][MemTicked =>
        LET i == m_last'.idx IN
        m_memo[i] # NoRes =>
            /\ ~m_last'.real
            /\ m_last'.ret = m_memo[i]
            /\ m_memo'[i] = m_memo[i]]_vars

\* In the third call of an execution child 1 was ticked again: it returned
\* the Success recorded earlier without its real tick being invoked.
C8_Witness ==
    /\ m_ncall = 3
    /\ m_pc = "tick"
    /\ m_prevEnd = NoRes
    /\ m_snap = <<1, 2>>
    /\ m_memo[1] = Res(Success, NoErr)
    /\ m_last = [idx |-> 1, child |-> 1, real |-> FALSE, ret |-> Res(Success, NoErr)]

\* C29: a child result with a non-nil error is memorized whatever its status:
\* the real tick that returns it sets the override to it, and once a child
\* has returned (Running, err) or any other result with an error, every
\* later tick of that child in the execution returns that result without
\* invoking the real tick.
C29_MemorizeError ==
    [][MemTicked =>
        LET i == m_last'.idx IN
        /\ (m_last'.real /\ m_last'.ret.e # NoErr) =>
                /\ m_memo'[i] = m_last'.ret
                /\ m_nodes'[i].override = m_last'.ret
        /\ (m_memo[i] # NoRes /\ m_memo[i].e # NoErr) =>
                /\ ~m_last'.real
                /\ m_last'.ret = m_memo[i]
                /\ m_last'.ret.s = m_memo[i].s]_vars

\* In the third call of an execution child 2 was ticked again after its real
\* tick had returned (Running, error): it returned (Running, error) and the
\* real tick was not invoked; child 1 is still running.
C29_Witness ==
    /\ m_ncall = 3
    /\ m_pc = "tick"
    /\ m_prevEnd = NoRes
    /\ m_snap = <<1, 2>>
    /\ m_memo[1] = NoRes
    /\ m_memo[2] = Res(Running, <<"e1">>)
    /\ m_last = [idx |-> 2, child |-> 2, real |-> FALSE, ret |-> Res(Running, <<"e1">>)]

\* C9: when the wrapped tick returns a non-Running status or any error, the
\* execution ends: the memorized results are discarded, the next call wraps
\* the children passed to it, and ticking a child invokes its real tick again.
C9_MemorizeReset ==
    [][/\ (m_pc = "tick" /\ m_pc' = "idle" /\ ~StillRunning(m_ret')) =>
            (~m_started' /\ m_nodes' = <<>>)
       /\ (m_pc = "idle" /\ m_pc' = "tick" /\ m_fresh) =>
            /\ Len(m_nodes') = Len(m_args')
            /\ \A i \in 1..Len(m_args') :
                    m_nodes'[i] = [child |-> m_args'[i], override |-> NoRes]
       /\ MemTicked =>
            /\ m_last'.idx \in 1..Len(m_snap)
            /\ m_last'.child = m_snap[m_last'.idx]
            /\ (m_memo[m_last'.idx] = NoRes /\ m_last'.child \notin {NilKid, NilTickKid})
                    => m_last'.real]_vars

\* The first execution ended with (Running, error) after child 2 at index 2
\* had been memorized; the next call was passed other children, in which
\* child 2 is first, and its real tick has been invoked again.
C9_Witness ==
    /\ m_ncall = 2
    /\ m_pc = "tick"
    /\ m_prevEnd = Res(Running, <<"e1">>)
    /\ m_snap = <<2, NilTickKid, NilKid>>
    /\ m_last.idx = 1
    /\ m_last.child = 2
    /\ m_last.real

\* C10: a sibling with a real tick that is expanded while its cached status
\* is not Running and another sibling's is Running yields a tick that
\* invokes no real logic, leaves the cache as it is and returns the cached
\* status; expanded in any other situation it yields a tick that runs the
\* real logic, stores the status it returns in the cache for that sibling
\* and returns the real status and error unchanged.
C10_SyncGate ==
    (s_last.i # 0 /\ s_last.i \notin SyncNilTick) =>
        LET i == s_last.i
            e == s_last.exp
        IN  IF e[i] # Running /\ \E j \in Siblings \ {i} : e[j] = Running
              THEN /\ ~s_last.real
                   /\ s_last.after = e
                   /\ s_last.ret = Res(e[i], NoErr)
              ELSE /\ s_last.real
                   /\ s_last.ret = s_last.r
                   /\ s_last.after = [e EXCEPT ![i] = s_last.r.s]

\* Sibling 1 is Running and sibling 2, whose last status was Success, has
\* just been ticked: it returned Success without running its real logic.
C10_Witness ==
    /\ s_last.i = 2
    /\ s_last.exp = <<Running, Success, 0>>
    /\ ~s_last.real
    /\ s_last.ret = Res(Success, NoErr)
    /\ s_statuses = <<Running, Success, 0>>

\* C11: whenever the real logic of a sibling is running, that sibling's own
\* cached status is Running or no sibling of the set has cached status
\* Running (the cache cannot change while the real logic holds the lock, so
\* this is the situation in which the real logic started).
C11_RealOnlyWhenAllowed ==
    \A t \in Threads :
        s_thr[t].pc = "real" =>
            \/ s_statuses[s_thr[t].i] = Running
            \/ ~SycRunning(s_statuses)

\* A goroutine is expanding an underlying node of the set (pc "expand") or
\* executing a sibling's real tick (pc "real").
SyncCritical(t) == s_thr[t].pc \in {"expand", "real"}

\* C30: with several goroutines ticking siblings of one Sync set, at any
\* moment at most one goroutine is executing a real tick or expanding an
\* underlying node of the set, and it is the one that holds the mutex.
C30_SyncMutualExclusion ==
    /\ \A t, u \in Threads : (SyncCritical(t) /\ SyncCritical(u)) => t = u
    /\ \A t \in Threads : SyncCritical(t) => s_mutex = t

\* Goroutine 1 is executing the real tick of sibling 1 while goroutine 2 has
\* been handed the live tick of sibling 2 and waits for the mutex.
C30_Witness ==
    /\ s_thr[1].pc = "real"
    /\ s_thr[1].i = 1
    /\ s_mutex = 1
    /\ s_thr[2].pc = "ticking"
    /\ s_thr[2].kind = "live"
    /\ s_thr[2].i = 2

\* C18: once a tick has returned a non-nil error no further tick is started
\* and the run goroutine has left its loop; from then on the Ticker is bound
\* to close Done, and whenever Done is closed Err() is exactly that error.
C18_TickErrorEnds ==
    /\ [](t_tickErr # NoErr => ~t_late /\ t_pc \notin {"select", "tick"})
    /\ [](t_tickErr # NoErr /\ t_done => TickerErr = t_tickErr)
    /\ (t_tickErr # NoErr ~> t_done)
C18_Witness ==
    /\ t_tickErr = <<"e2">>
    /\ t_done
    /\ TickerErr = <<"e2">>
    /\ t_nticks = 2

\* C19: when the context is cancelled while Stop() has not been called and no
\* tick has returned an error, then, unless Stop() is called or a tick returns
\* an error afterwards, the Ticker eventually stops ticking and closes Done
\* with Err() equal to the context's Err().
C19_CtxCancelEnds ==
    (t_parent # NoErr /\ ~t_stopCalled /\ t_tickErr = NoErr)
        ~> \/ t_stopCalled
           \/ t_tickErr # NoErr
           \/ t_done /\ t_pc = "exited" /\ TickerErr = t_parent
C19_Witness ==
    /\ t_parent = DeadlineExceeded
    /\ ~t_stopCalled
    /\ t_tickErr = NoErr
    /\ t_nticks = 1
    /\ t_done
    /\ TickerErr = DeadlineExceeded

\* C20: when Stop() has been called while the context is not cancelled and no
\* tick has returned an error, then, unless the context is cancelled or a tick
\* returns an error afterwards, the Ticker eventually stops ticking and closes
\* Done with Err() equal to nil.
C20_StopEnds ==
    (t_stopCalled /\ t_parent = NoErr /\ t_tickErr = NoErr)
        ~> \/ t_parent # NoErr
           \/ t_tickErr # NoErr
           \/ t_done /\ t_pc = "exited" /\ TickerErr = NoErr
C20_Witness ==
    /\ t_stopCalled
    /\ t_parent = NoErr
    /\ t_tickErr = NoErr
    /\ t_nticks = 1
    /\ t_done
    /\ TickerErr = NoErr

Registered(k) == pc[AddOf(k)] = "ok"
Recorded == {mo_rec[i] : i \in 1..Len(mo_rec)}

\* C12: while the manager's Done() is closed, every ticker whose Add
\* returned nil has closed its own Done(); this includes a ticker whose Add
\* returned nil when m.stop was already closed.
C12_DoneAfterTickers ==
    mgr_done => \A k \in Tickers : Registered(k) => tk_done[k]
C12_Witness ==
    /\ mgr_done
    /\ \A k \in Tickers : Registered(k) /\ tk_done[k]
    /\ mo_raced[2]

\* C13: a registered ticker that has finished with a non-nil Err() leads to
\* its error being recorded, m.stop closed, Stop() called on every
\* registered ticker, and, these all being done, the manager's Done() closed.
C13_ErrorStopsAll ==
    \A k \in Tickers :
        (Registered(k) /\ tk_done[k] /\ tk_err[k] # NoTickerErr)
            ~> /\ k \in Recorded
               /\ mgr_stop
               /\ mgr_done
               /\ \A j \in Tickers : Registered(j) => tk_stops[j] >= 1 /\ tk_done[j]
C13_Witness ==
    /\ Registered(1) /\ Registered(2)
    /\ tk_err[2] = "e2" /\ tk_err[1] = NoTickerErr
    /\ mo_rec = <<2>>
    /\ mo_stopCalls = 0
    /\ tk_stops[1] = 1
    /\ mgr_done

\* C14: an Add that started after a Stop() call had returned never registers
\* its ticker; the error it returns satisfies errors.Is(e, ErrManagerStopped),
\* is ErrManagerStopped itself if no ticker error had been recorded, and
\* satisfies errors.Is(e, x) for every ticker error x that had been recorded.
C14_AddAfterStop ==
    \A k \in Tickers :
        mo_late[k] =>
            /\ pc[AddOf(k)] \notin {"sel2", "ok"}
            /\ pc[HandleOf(k)] = "none"
            /\ pc[AddOf(k)] = "failed" =>
                /\ ErrorsIs(add_err[k], ErrManagerStopped)
                /\ mo_seen[k] = <<>> => add_err[k] = ErrManagerStopped
                /\ \A i \in 1..Len(mo_seen[k]) :
                       ErrorsIs(add_err[k], NewError(TickerErrOf(mo_seen[k][i])))
C14_Witness ==
    /\ mo_late[1]
    /\ pc[AddOf(1)] = "failed"
    /\ mo_seen[1] = <<2>>
    /\ add_err[1] # ErrManagerStopped

HandleEnded(k) == pc[HandleOf(k)] = "exited"

\* C15 as stated: once the handling of a registered ticker whose Done() fired
\* has ended, the manager's Stop() has been triggered (m.stop is closed).
C15_RemovalStops ==
    \A k \in Tickers : HandleEnded(k) => mgr_stop
\* C15: once the handling of a registered ticker whose Done() fired has
\* ended, that handling has called the manager's Stop() exactly if the
\* ticker's Err() is non-nil, and then m.stop is closed.
C15_RemovalStopsOnError ==
    \A k \in Tickers :
        HandleEnded(k) =>
            /\ mo_trig[k] <=> tk_err[k] # NoTickerErr
            /\ mo_trig[k] => mgr_stop
C15_Witness ==
    /\ HandleEnded(1) /\ tk_err[1] = NoTickerErr /\ ~mgr_stop
    /\ pc[HandleOf(2)] = "select"

\* C16: as long as no user has called Stop() and no ticker has an error, the
\* manager's Done() is open, its Err() is nil, m.stop is open and no Add is
\* on its failing path, whatever tickers have finished with a nil Err().
C16_NilFinishKeepsRunning ==
    (mo_stopCalls = 0 /\ \A k \in Tickers : tk_err[k] = NoTickerErr) =>
        /\ ~mgr_done
        /\ ~mgr_stop
        /\ ManagerErr = NilError
        /\ \A k \in Tickers : pc[AddOf(k)] \in {"idle", "sel1", "sel2", "ok"}
C16_Witness ==
    /\ mo_stopCalls = 0
    /\ \A k \in Tickers : tk_err[k] = NoTickerErr
    /\ HandleEnded(1)
    /\ mo_after[2] /\ Registered(2) /\ ~tk_done[2]

\* The message of the recorded errors, written down from the record of the run.
ExpectedMessage ==
    [i \in 1..(2 * Len(mo_rec) - 1) |->
        IF i % 2 = 1 THEN TickerErrOf(mo_rec[(i + 1) \div 2]) ELSE " | "]
Unrelated ==
    {NewError("another_error"), ErrManagerStopped}
        \cup {NewError(TickerErrOf(k)) : k \in Tickers \ Recorded}

\* C17: Err() is nil while no registered ticker has finished with an error
\* and while none is recorded; otherwise its message is the recorded errors'
\* messages joined by " | " in recording order, errors.Is(Err(), x) holds
\* for every recorded x and for no unrelated error.
C17_ErrJoinsRecorded ==
    /\ (\A k \in Tickers : Registered(k) => tk_err[k] = NoTickerErr) => ManagerErr = NilError
    /\ mo_rec = <<>> => ManagerErr = NilError
    /\ mo_rec # <<>> =>
        /\ ManagerErr # NilError
        /\ ErrorString(ManagerErr) = ExpectedMessage
        /\ \A k \in Recorded : ErrorsIs(ManagerErr, NewError(TickerErrOf(k)))
        /\ \A x \in Unrelated : ~ErrorsIs(ManagerErr, x)
C17_Witness ==
    /\ mo_rec = <<2, 1>>
    /\ ErrorString(ManagerErr) = <<"e2", " | ", "e1">>
    /\ mgr_done

\* C21: whenever Done() is closed, Err() is the outcome of the run: the error
\* a tick returned if one did, else nil or the context's error, nil only if
\* Stop() was called; and no step taken while Done() is closed changes Err().
C21_ErrFinalAtDone ==
    /\ [](t_done =>
            /\ t_tickErr # NoErr => TickerErr = t_tickErr
            /\ t_tickErr = NoErr => TickerErr \in {NoErr, t_parent}
            /\ (t_tickErr = NoErr /\ TickerErr = NoErr) => t_stopCalled)
    /\ [][t_done => TickerErr' = TickerErr]_vars
C21_Witness ==
    /\ t_done
    /\ t_tickErr = <<"e1">>
    /\ TickerErr = <<"e1">>
    /\ t_parent = Canceled
    /\ t_stopCalled

\* C22: a Ticker from NewTickerStopOnFailure stays in its loop while no tick
\* has returned Failure or an error and nobody stopped or cancelled it; after
\* the first (Failure, nil) tick it starts no further tick, closes Done() and
\* Err() is nil; after a tick with an error it closes Done() and Err() is
\* that error.
C22_StopOnFailure ==
    /\ []((~t_fail /\ t_tickErr = NoErr /\ ~t_stopCalled /\ t_parent = NoErr)
            => t_pc \in {"select", "tick"})
    /\ [](t_fail => ~t_lateF /\ t_pc \notin {"select", "tick"})
    /\ [](t_fail /\ t_done => TickerErr = NoErr)
    /\ (t_fail ~> t_done)
    /\ [](t_tickErr # NoErr /\ t_done => TickerErr = t_tickErr)
    /\ (t_tickErr # NoErr ~> t_done)
C22_Witness ==
    /\ t_kind = "stopOnFailure"
    /\ t_fail
    /\ t_nticks = 3
    /\ t_done
    /\ TickerErr = NoErr
    /\ ~t_stopCalled /\ t_parent = NoErr

\* C25: close(t.stop) is executed at most once whatever the number of Stop()
\* calls (a second close would panic), and exactly once as soon as Stop() has
\* been called or the run goroutine has passed its own t.Stop().
C25_TickerStopOnce ==
    /\ t_nclose <= 1
    /\ (t_stopCalled \/ t_pc \in {"cancel", "close", "exited"}) => t_nclose = 1 /\ t_stop
C25_Witness ==
    /\ t_nstops = 2
    /\ t_pc = "exited"
    /\ t_tickErr # NoErr
    /\ t_nclose = 1

\* C23: a Stop() call on the manager leads to Stop() having been called on
\* every registered ticker and, these closing their Done() once stopped, to
\* the manager's Done() being closed; closed with no ticker ever registered,
\* Err() is nil.
C23_StopStopsAll ==
    /\ (mo_stopCalls > 0)
        ~> (mgr_done /\ \A k \in Tickers : Registered(k) => tk_stops[k] >= 1 /\ tk_done[k])
    /\ []((mgr_done /\ \A k \in Tickers : pc[HandleOf(k)] = "none") => ManagerErr = NilError)
C23_Witness ==
    /\ mo_stopCalls = 1
    /\ mgr_done
    /\ Registered(1) /\ tk_stops[1] = 1 /\ tk_err[1] = NoTickerErr
    /\ pc[AddOf(2)] = "idle"
    /\ ManagerErr = NilError

\* C24: close(m.done) and close(m.stop) are each executed at most once (a
\* second close would panic) whatever Stop() calls are made and whenever, and
\* no step of a Stop() call of the user changes Err().
C24_ManagerStopIdempotent ==
    /\ [](mo_doneCloses <= 1 /\ mo_stopCloses <= 1)
    /\ [][pc'[StopCaller] # pc[StopCaller] => ManagerErr' = ManagerErr]_vars
C24_Witness ==
    /\ mo_stopCalls = 2
    /\ pc[StopCaller] = "idle"
    /\ mgr_done
    /\ mo_rec = <<2>>
    /\ mo_late[1] /\ pc[AddOf(1)] = "failed"
    /\ mo_doneCloses = 1 /\ mo_stopCloses = 1

\* C26: while no Fork call is in progress no goroutine of a Fork call exists
\* (ticking a child or about to send) and no result is left undelivered: the
\* call that returned applied as many results as it started child ticks.
C26_ForkBarrier ==
    f_pc = "idle" =>
        /\ f_gor = {}
        /\ f_outputs = <<>>
        /\ f_x = f_count
C26_Witness ==
    /\ ForkReturned
    /\ f_count = 3
    /\ f_x = 3
    /\ f_gor = {}
    /\ f_ret = RunningNil

\* C27: after the call that ends a cycle the aggregate status and error are
\* zero and nil; the next call starts one goroutine per child passed to it,
\* with status Success and a nil error; and whenever a call has applied all
\* its results the aggregate error is made of the errors of this cycle only.
C27_ForkCycleReset ==
    /\ [](ForkCycleOver => f_status = 0 /\ f_err = NoErr /\ f_remaining = <<>>)
    /\ []((f_pc = "drain" /\ f_x = f_count) => f_err = o_arrival)
    /\ [][(ForkCycleOver /\ f_pc' = "drain") =>
            /\ f_status' = Success
            /\ f_err' = NoErr
            /\ f_count' = Len(o_kids')
            /\ {g.node : g \in f_gor'} = Range(o_kids')]_vars
C27_Witness ==
    /\ f_pc = "drain"
    /\ f_ncall = 2
    /\ o_rounds = 1
    /\ f_ret = Res(Failure, ErrOf(1))
    /\ f_count = 3
    /\ f_x = f_count
    /\ f_status = Success
    /\ f_err = NoErr

\* C28: a call that finds no queued task, or only tasks whose tick is
\* (Running, nil), ticks each queued task once, invokes the generator once and
\* ticks the one new task, built with the children of this call, once; a new
\* task returning (Running, nil) goes to the tail of the queue and the call
\* returns (Running, nil), any other result is returned as it is and the task
\* is not queued.
C28_BgGenerates ==
    [][(b_ncall' # b_ncall /\ \A k \in 1..Len(b_nodes) : StillRunning(NodeTick(b_nodes[k]))) =>
        LET q == b_nodes
            node == b_reg'[Len(b_reg')]
            r == NodeTick(node)
        IN  /\ b_gen' = 1
            /\ b_ngen' = b_ngen + 1
            /\ Len(b_reg') = Len(b_reg) + 1
            /\ node.id = b_ngen + 1
            /\ node.children = b_args'
            /\ b_log' = Append(Ids(q), node.id)
            /\ \A j \in 1..Len(q) : b_nodes'[j] = Ticked(q[j])
            /\ IF StillRunning(r)
                 THEN /\ b_nodes' = Append(TickUpTo(q, Len(q)), Ticked(node))
                      /\ b_ret' = RunningNil
                 ELSE /\ Len(b_nodes') = Len(q)
                      /\ b_ret' = r]_vars

\* The third call found tasks 1 and 2 Running, generated task 3 with children
\* cB, whose first tick returned Running with an error: returned, not queued.
C28_Witness ==
    /\ b_gen = 1
    /\ b_ngen = 3
    /\ Ids(b_nodes) = <<1, 2>>
    /\ b_log = <<1, 2, 3>>
    /\ b_args = "cB"
    /\ b_reg[3].children = "cB"
    /\ b_ret = Res(Running, <<"e1">>)

\* C32: the manager calls Stop() on a ticker only after its Add returned nil
\* and never more than once; as soon as the handling of the ticker has left
\* its select, on the ticker's Done() or on m.stop, it has called it exactly
\* once, and it calls it no more until the handling ends.
C32_StopTickerOnce ==
    \A k \in Tickers :
        /\ tk_stops[k] <= 1
        /\ tk_stops[k] = 1 => Registered(k)
        /\ pc[HandleOf(k)] \notin {"none", "select"} => tk_stops[k] = 1

\* No user called Stop(). Ticker 1 finished by itself with an error and was
\* stopped on the Done() branch; its handling closed m.stop, on which the
\* handling of ticker 2 stopped ticker 2 and now waits for its Done().
C32_Witness ==
    /\ mo_stopCalls = 0
    /\ mo_rec = <<1>>
    /\ HandleEnded(1)
    /\ tk_stops[1] = 1
    /\ pc[HandleOf(2)] = "waitdone"
    /\ ~tk_done[2]
    /\ tk_stops[2] = 1

\* C40: while the manager's Done() is closed, every ticker whose Add returned
\* nil and whose Err() is non-nil has its error among the recorded ones, every
\* handling of a ticker that was started has got as far as its t.Done(), and
\* no step changes Err().
C40_ErrFinalAtDone ==
    /\ [](mgr_done =>
            \A k \in Tickers :
                /\ (Registered(k) /\ tk_err[k] # NoTickerErr) => k \in Recorded
                /\ pc[HandleOf(k)] \in {"none", "wait", "exited"})
    /\ [][mgr_done => ManagerErr' = ManagerErr]_vars

\* Both tickers were registered and finished with errors, ticker 2 first;
\* Done() is closed and Err() holds both errors.
C40_Witness ==
    /\ mgr_done
    /\ Registered(1) /\ Registered(2)
    /\ mo_rec = <<2, 1>>
    /\ ErrorString(ManagerErr) = ExpectedMessage
    /\ Len(mgr_errs) = 2

\* C39 as stated: after a call of Stop() has returned, the run goroutine
\* makes at most one further call of node.Tick().
C39_OneTickAfterStop == t_postStop <= 1

\* C39: after a call of Stop() has returned, the run goroutine takes at most
\* one further timer tick from t.ticker.C, and makes at most two further
\* calls of node.Tick(): one for that timer tick, and one if it had taken a
\* timer tick before Stop() was called and not yet entered node.Tick().
C39_TicksAfterStop ==
    /\ t_postTake <= 1
    /\ t_postStop <= t_postTake + 1

\* Stop() returned while a timer tick had been taken and another one was
\* pending; node.Tick() was called for both, and the Ticker is done.
C39_Witness ==
    /\ t_stopCalled
    /\ t_postTake = 1
    /\ t_postStop = 2
    /\ t_done
    /\ TickerErr = NoErr

\* C38: node.Tick() is called by the run goroutine only: a timer tick is
\* taken from t.ticker.C only while the goroutine is in its select, that is
\* not inside node.Tick(), and node.Tick() is what it does next, so ticks
\* never overlap; once Done() is closed the goroutine has exited, no timer
\* tick is taken and node.Tick() is not called.
C38_TicksSerialBeforeDone ==
    /\ [][t_C' < t_C => t_pc = "select" /\ t_pc' = "tick" /\ ~t_done]_vars
    /\ [](t_done => t_pc = "exited")
    /\ [][t_done => /\ t_C' >= t_C
                    /\ t_pc' = "exited"
                    /\ t_postStop' = t_postStop
                    /\ t_tickErr' = t_tickErr]_vars

\* Done() is closed after three ticks, and a timer tick is left in the
\* channel that nobody takes.
C38_Witness ==
    /\ t_done
    /\ t_nticks = 3
    /\ t_C = 1
    /\ t_pc = "exited"
    /\ t_tickErr = <<"e1">>

ExitPath == {"store", "stopself", "cancel", "close", "exited"}

AsyncSending == {g \in a_gor : g.pc = "send"}

\* C33: whenever the wrapped tick has returned in the spawned goroutine, the
\* done channel has room for its result, so the send does not block, and the
\* goroutine terminates whether or not the Async tick is called again.
C33_AsyncGoroutineEnds ==
    /\ [](AsyncSending # {} => Len(a_buf) < DoneCap)
    /\ [][\A g \in AsyncSending : a_ncall' = a_ncall => (g \notin a_gor' => a_buf' = <<g.status>>)]_vars
    /\ (AsyncSending # {} ~> a_gor = {})

\* All calls of the Async tick have been made, the last one spawned a
\* goroutine, and that goroutine has delivered its result and is gone.
C33_Witness ==
    /\ a_ncall = MaxCalls
    /\ a_nspawn = 2
    /\ a_ncollect = 0
    /\ a_gor = {}
    /\ a_buf = <<Res(Failure, <<"e1">>)>>

\* The cycle state shared by the calls of one Fork and the closures.
ForkShared == <<f_remaining, f_status, f_err>>

\* C35: a step of a child goroutine (its tick, or the send of its closure)
\* leaves the pending list, the aggregate status and the aggregate error as
\* they are; while a call drains, these change only in a step of the caller
\* that takes exactly one closure from outputs and applies it, so no two
\* updates overlap.
C35_ForkSharedByCaller ==
    [][/\ (f_gor' # f_gor /\ f_ncall' = f_ncall) => ForkShared' = ForkShared
       /\ (ForkShared' # ForkShared /\ f_pc = "drain" /\ f_pc' = "drain") =>
            /\ f_gor' = f_gor
            /\ f_x' = f_x + 1
            /\ f_outputs # <<>>
            /\ f_outputs' = Tail(f_outputs)]_vars

\* The caller has applied the closure of one child, which recorded its
\* error, while another child goroutine is still ticking and a third has
\* its closure waiting in outputs.
C35_Witness ==
    /\ f_pc = "drain"
    /\ f_x = 1
    /\ f_err # NoErr
    /\ Len(f_outputs) = 1
    /\ \E g \in f_gor : g.pc = "tick"

\* Task id has had its terminal result returned by a call.
BgReported(id) == \E k \in 1..Len(b_term) : b_term[k].id = id
BgQueued(id) == \E j \in 1..Len(b_nodes) : b_nodes[j].id = id
\* The number of calls task j of queue q can still wait for its result: the
\* Running ticks it has left and the tasks ahead of it that ever finish.
BgRank(q, j) == q[j].left + Cardinality({i \in 1..(j-1) : q[i].left # Forever})

\* C36: every call of the Background tick brings every queued task that
\* finishes after finitely many ticks closer to its result: the call returns
\* that result and removes the task, or ticks the task, or removes a task
\* ahead of it, never counting on a task that stays Running for ever, which
\* just stays queued. So the result of such a task is returned after finitely
\* many calls (as far as calls are made), behind whatever task.
C36_BgEveryTaskReported ==
    /\ [][b_ncall' # b_ncall =>
            \A j \in 1..Len(b_nodes) :
                LET n == b_nodes[j] IN
                IF n.left = Forever
                  THEN \E i \in 1..Len(b_nodes') : b_nodes'[i] = n
                  ELSE \/ /\ b_ret' = n.res
                          /\ b_term' = Append(b_term, [id |-> n.id, res |-> n.res])
                          /\ \A i \in 1..Len(b_nodes') : b_nodes'[i].id # n.id
                       \/ \E i \in 1..Len(b_nodes') :
                            /\ b_nodes'[i].id = n.id
                            /\ BgRank(b_nodes', i) < BgRank(b_nodes, j)]_vars
    /\ \A id \in 1..MaxBgCalls :
            (BgQueued(id) /\ b_reg[id].left # Forever)
                ~> (BgReported(id) \/ b_ncall = MaxBgCalls)

\* Task 1 stays Running for ever and is queued first; task 2, queued behind
\* it, was ticked until it finished and its result has been returned.
C36_Witness ==
    /\ b_ngen = 2
    /\ b_reg[1].left = Forever
    /\ b_reg[2].left = 1
    /\ Ids(b_nodes) = <<1>>
    /\ b_term = <<[id |-> 2, res |-> Res(Invalid, NoErr)]>>
    /\ b_ncall = 3

\* The siblings whose cached status is Running.
SyncRunningSet == {j \in Siblings : s_statuses[j] = Running}

\* C37: with the siblings ticked one at a time, at most one sibling has
\* cached status Running, and while one has, a step that runs real logic
\* runs that sibling's: no other sibling's real tick runs until the real
\* tick of the Running sibling has returned a non-Running status.
C37_SyncOneRunning ==
    /\ [](Cardinality(SyncRunningSet) <= 1)
    /\ [][(\/ s_statuses' # s_statuses
            \/ \E t \in Threads : s_thr[t].pc = "real" /\ s_thr'[t].pc # "real") =>
            /\ s_last'.real
            /\ SyncRunningSet \subseteq {s_last'.i}
            /\ s_statuses' = [s_statuses EXCEPT ![s_last'.i] = s_last'.r.s]]_vars

\* Sibling 1 is Running; sibling 2, ticked after that, got the disabled tick
\* and returned its own cached status without running its real logic.
C37_Witness ==
    /\ s_statuses[1] = Running
    /\ s_statuses[2] = Failure
    /\ s_last.i = 2
    /\ s_last.kind = "disabled"
    /\ ~s_last.real
    /\ s_last.ret = Res(Failure, NoErr)

\* The real logic of one pass, in order.
TreePass == <<TreeA, TreeB, TreeC>>
\* A tick of the tree returns at this step.
TreeReturns == q_pc # 0 /\ q_pc' = 0

\* C31: the real logic run since the last Success is always a beginning of
\* A, B, C, each once and in that order, and it starts afresh with the tick
\* after a Success; every tick runs or has run A; a tick returns
\* (Success, nil) exactly if it ran C, which it does exactly if B's result
\* was there to collect, and (Running, nil) otherwise; a tick begun after
\* B's goroutine has delivered its result returns Success.
C31_SequenceSyncAsync ==
    /\ [](\E n \in 0..3 : q_log = SubSeq(TreePass, 1, n))
    /\ [][TreeReturns =>
            /\ q_log' # <<>>
            /\ q_ret' \in {RunningNil, Res(Success, NoErr)}
            /\ q_ret' = Res(Success, NoErr) <=> q_log' = TreePass
            /\ q_ret' = Res(Success, NoErr) =>
                    (q_log = <<TreeA, TreeB>> /\ q_gor = "none" /\ q_pc = TreeC)
            /\ q_ready => q_ret' = Res(Success, NoErr)]_vars
    /\ [][(q_pc = 0 /\ q_pc' # 0 /\ q_ret = Res(Success, NoErr)) =>
            (q_log' = <<>> /\ q_pc' = TreeA /\ ~SycRunning(q_statuses))]_vars

\* Two passes are over: the first took three ticks, two of which returned
\* Running, the second took two; the fifth tick has returned Success.
C31_Witness ==
    /\ q_passes = 2
    /\ q_ncall = 5
    /\ q_pc = 0
    /\ q_ret = Res(Success, NoErr)
    /\ q_log = TreePass

====
